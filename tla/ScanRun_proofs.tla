--------------------------- MODULE ScanRun_proofs ---------------------------
(***************************************************************************)
(* Theorems about ScanRun, for every number of credential requests, secrets, *)
(* scans and restarts: what the table of credentials promises its readers    *)
(* and its writers, and what a scan presents.                              *)
(***************************************************************************)
EXTENDS ScanRun, ScanProbe_proofs

OneRow == \A c, d \in credential : c = d

\* A row is there only once its request has committed, and so is the row that
\* a request has found.
Written(id) == request[id].at \in {"refresh", "answered"}

RowsWritten  == \A c \in credential : Written(c.id)
FoundWritten == \A r \in Requests : request[r].found # NoRow => Written(request[r].found)

\* The row found by a request that has committed is gone.
FoundGone ==
  \A r \in Requests :
    request[r].at = "refresh" \/ request[r].status \in {"201", "204"} =>
      \A c \in credential : c.id # request[r].found

\* A request under way has no status yet.
StatusLast == \A r \in Requests : request[r].at # "answered" => request[r].status = "none"

\* A set under way has sealed its credential.
SealedWhileSet ==
  \A r \in Requests :
    request[r].op = "set" /\ request[r].at \in InProgress => request[r].sealed \in Secrets

CredInv ==
  /\ CredTypeOK
  /\ OneRow
  /\ RowsWritten
  /\ FoundWritten
  /\ FoundGone
  /\ StatusLast
  /\ SealedWhileSet

\* The step of the credential store that a step of the composition is.
CredStoreNext == CredentialNext \/ \E new \in Secrets \cup {NoSecret} : RestartRequests(new)

\* The credential of the probe under way is the one that left with it.
AuthInv ==
  /\ engagement \in Engagements
  /\ policy.auth = probing.auth
  /\ probing.authenticated <=> probing.auth # NoAuth
  /\ probing = NotProbing => wire = {}
  /\ \A w \in wire : w.credential = probing.auth \/ (w.credential = NoAuth /\ adapter.name = "tls")

-----------------------------------------------------------------------------
\* The row of an engagement is a credential, and it is the only one.
LEMMA RowTyped ==
  ASSUME CredInv, credential # {}
  PROVE  /\ (CHOOSE c \in credential : TRUE) \in credential
         /\ get_credential \in Requests
         /\ \A c \in credential : c.id = get_credential
<1>1. (CHOOSE c \in credential : TRUE) \in credential
  OBVIOUS
<1>2. get_credential = (CHOOSE c \in credential : TRUE).id
  BY DEF get_credential
<1>3. credential \subseteq Credential
  BY DEF CredInv, CredTypeOK
<1>4. \A c \in credential : c = (CHOOSE d \in credential : TRUE)
  BY <1>1 DEF CredInv, OneRow
<1> QED
  BY <1>1, <1>2, <1>3, <1>4 DEF Credential

\* The store is sound before the first step.
LEMMA InitCredInv == CredInit => CredInv
<1> SUFFICES ASSUME CredInit PROVE CredInv
  OBVIOUS
<1> DEFINE Start(r, over) ==
      IF r \notin over THEN NotBegun
      ELSE IF \E c \in credential : c.id = r
      THEN [NotBegun EXCEPT !.op = "set", !.at = "answered", !.status = "201",
                            !.sealed = (CHOOSE c \in credential : TRUE).sealed]
      ELSE [NotBegun EXCEPT !.op = "delete", !.at = "answered", !.status = "404"]
<1>1. PICK over \in SUBSET Requests :
        /\ {c.id : c \in credential} \subseteq over
        /\ request = [r \in Requests |-> Start(r, over)]
  BY DEF CredInit
<1>2. /\ credential \subseteq Credential
      /\ \A c, d \in credential : c = d
      /\ credential # {} => (CHOOSE c \in credential : TRUE) \in credential
  <2>1. credential = {} \/ \E c \in Credential : credential = {c}
    BY DEF CredInit
  <2> QED
    BY <2>1
<1>3. \A r \in Requests :
        /\ request[r] \in CredentialRequest
        /\ request[r].found = NoRow
        /\ request[r].at # "answered" => request[r].status = "none"
        /\ request[r].at \notin InProgress
        /\ r \in over => request[r].at = "answered"
  <2> TAKE r \in Requests
  <2>1. CASE r \notin over
    BY <1>1, <2>1 DEF NotBegun, CredentialRequest, InProgress
  <2>2. CASE r \in over /\ \E c \in credential : c.id = r
    <3>1. (CHOOSE c \in credential : TRUE).sealed \in Secrets
      BY <1>2, <2>2 DEF Credential
    <3>2. request[r] = [NotBegun EXCEPT !.op = "set", !.at = "answered", !.status = "201",
                                        !.sealed = (CHOOSE c \in credential : TRUE).sealed]
      BY <1>1, <2>2
    <3> QED
      BY <2>2, <3>1, <3>2 DEF NotBegun, CredentialRequest, InProgress
  <2>3. CASE r \in over /\ ~ \E c \in credential : c.id = r
    <3>1. request[r] = [NotBegun EXCEPT !.op = "delete", !.at = "answered", !.status = "404"]
      BY <1>1, <2>3
    <3> QED
      BY <2>3, <3>1 DEF NotBegun, CredentialRequest, InProgress
  <2> QED
    BY <2>1, <2>2, <2>3
<1>4. CredTypeOK
  <2>1. request \in [Requests -> CredentialRequest]
    <3> HIDE DEF Start
    <3> QED
      BY <1>1, <1>3
  <2>2. secret \in Secrets \cup {NoSecret} /\ restarts \in 0..MaxRestarts
    <3>1. secret \in Secrets \cup {NoSecret} /\ restarts = 0
      BY Zenon DEF CredInit
    <3> QED
      BY <3>1, MaxRestartsAssumption
  <2> QED
    BY <1>2, <2>1, <2>2 DEF CredTypeOK
<1>5. \A c \in credential : c.id \in over /\ c.id \in Requests /\ c.id # NoRow
  BY <1>1, <1>2, NoRowAssumption DEF Credential
<1> QED
  BY <1>2, <1>3, <1>4, <1>5
     DEF CredInv, OneRow, RowsWritten, FoundWritten, FoundGone, StatusLast, SealedWhileSet,
         Written, InProgress

-----------------------------------------------------------------------------
\* What an answer changes: the request's own record, and of it two fields.
LEMMA AnswerChanges ==
  ASSUME CredInv, NEW r \in Requests, NEW status \in {"201", "204", "500", "gone"},
         Answered(r, status)
  PROVE  /\ request' \in [Requests -> CredentialRequest]
         /\ \A q \in Requests \ {r} : request'[q] = request[q]
         /\ request'[r].at = "answered" /\ request'[r].status = status
         /\ request'[r].found = request[r].found
<1>1. request[r] \in CredentialRequest /\ request \in [Requests -> CredentialRequest]
  BY DEF CredInv, CredTypeOK
<1>2. request' = [request EXCEPT ![r] = [request[r] EXCEPT !.at = "answered", !.status = status]]
  BY <1>1 DEF Answered, CredentialRequest
<1>3. [request[r] EXCEPT !.at = "answered", !.status = status] \in CredentialRequest
  BY <1>1 DEF CredentialRequest
<1>4. request'[r] = [request[r] EXCEPT !.at = "answered", !.status = status]
  BY <1>1, <1>2
<1>5. /\ request' \in [Requests -> CredentialRequest]
      /\ \A q \in Requests \ {r} : request'[q] = request[q]
  BY <1>1, <1>2, <1>3
<1>6. request'[r].at = "answered" /\ request'[r].status = status /\ request'[r].found = request[r].found
  BY <1>1, <1>4 DEF CredentialRequest
<1> QED
  BY <1>5, <1>6

\* An answer that says nothing of the table, or is true of it, keeps the store
\* sound when the table stays as it is.
LEMMA AnswerKeeps ==
  ASSUME CredInv, NEW r \in Requests, NEW status \in {"201", "204", "500", "gone"},
         Answered(r, status), UNCHANGED <<credential, secret, restarts>>,
         status \in {"201", "204"} => request[r].at = "refresh"
  PROVE  CredInv'
<1>1. /\ request' \in [Requests -> CredentialRequest]
      /\ \A q \in Requests \ {r} : request'[q] = request[q]
      /\ request'[r].at = "answered" /\ request'[r].status = status
      /\ request'[r].found = request[r].found
  BY AnswerChanges
<1>2. CredTypeOK' /\ OneRow'
  BY <1>1 DEF CredInv, CredTypeOK, OneRow
<1>3. \A id \in Requests : Written(id) => Written(id)'
  BY <1>1 DEF Written
<1>4. \A c \in credential : c.id \in Requests
  BY DEF CredInv, CredTypeOK, Credential
<1>5. RowsWritten'
  BY <1>3, <1>4 DEF CredInv, RowsWritten
<1>6. \A q \in Requests : request'[q].found = request[q].found /\ request[q].found \in Requests \cup {NoRow}
  BY <1>1 DEF CredInv, CredTypeOK, CredentialRequest
<1>7. FoundWritten'
  BY <1>3, <1>6 DEF CredInv, FoundWritten
<1>8. FoundGone' /\ StatusLast' /\ SealedWhileSet'
  BY <1>1, <1>6 DEF CredInv, FoundGone, StatusLast, SealedWhileSet, InProgress
<1> QED
  BY <1>2, <1>5, <1>7, <1>8 DEF CredInv

\* A request that begins, or moves without touching the table, keeps it sound.
LEMMA MoveKeeps ==
  ASSUME CredInv, NEW r \in Requests, UNCHANGED <<credential, secret, restarts>>,
         request[r].at \in {"idle", "flush"},
         request' = [request EXCEPT ![r] = request'[r]],
         request'[r] \in CredentialRequest,
         request'[r].at \notin {"idle", "refresh"},
         request'[r].status \notin {"201", "204"},
         request'[r].at # "answered" => request'[r].status = "none",
         request'[r].op = "set" /\ request'[r].at \in InProgress => request'[r].sealed \in Secrets,
         request'[r].found # NoRow => Stored(request'[r].found) \/ request'[r].found = request[r].found
  PROVE  CredInv'
<1>1. /\ request' \in [Requests -> CredentialRequest]
      /\ \A q \in Requests \ {r} : request'[q] = request[q]
  BY DEF CredInv, CredTypeOK
<1>2. CredTypeOK' /\ OneRow'
  BY <1>1 DEF CredInv, CredTypeOK, OneRow
<1>3. \A id \in Requests : Written(id) => Written(id)'
  BY <1>1 DEF Written
<1>4. \A c \in credential : c.id \in Requests
  BY DEF CredInv, CredTypeOK, Credential
<1>5. RowsWritten'
  BY <1>3, <1>4 DEF CredInv, RowsWritten
<1>6. \A q \in Requests : request'[q].found \in Requests \cup {NoRow}
  BY <1>1 DEF CredentialRequest
<1>7. FoundWritten'
  <2> SUFFICES ASSUME NEW q \in Requests, request'[q].found # NoRow
               PROVE  Written(request'[q].found)
    BY <1>3, <1>6 DEF FoundWritten
  <2>1. CASE request'[q].found = request[q].found
    BY <2>1 DEF CredInv, FoundWritten
  <2>2. CASE Stored(request'[q].found)
    BY <2>2 DEF CredInv, RowsWritten, Stored
  <2> QED
    BY <1>1, <2>1, <2>2
<1>8. FoundGone' /\ StatusLast' /\ SealedWhileSet'
  BY <1>1 DEF CredInv, FoundGone, StatusLast, SealedWhileSet
<1> QED
  BY <1>2, <1>5, <1>7, <1>8 DEF CredInv

\* What a request that begins finds and what it is then.
LEMMA Begun ==
  ASSUME CredInv, NEW r \in Requests,
         BeginDelete(r) \/ \E usable \in BOOLEAN : BeginSet(r, usable)
  PROVE  /\ (get_credential \in Requests /\ Stored(get_credential)) \/ get_credential = NoRow
         /\ request[r] = NotBegun
         /\ request' = [request EXCEPT ![r] = request'[r]]
         /\ UNCHANGED <<credential, secret, restarts>>
         /\ request'[r] \in CredentialRequest
         /\ request'[r].at \notin {"idle", "refresh"}
         /\ request'[r].status \notin {"201", "204"}
         /\ request'[r].at # "answered" => request'[r].status = "none"
         /\ request'[r].found \in {NoRow, get_credential}
         /\ request'[r].op = "set" /\ request'[r].at \in InProgress => request'[r].sealed \in Secrets
<1> DEFINE begun == request'[r]
<1>1. (get_credential \in Requests /\ Stored(get_credential)) \/ get_credential = NoRow
  <2>1. CASE credential = {}
    BY <2>1 DEF get_credential
  <2>2. CASE credential # {}
    BY <2>2, RowTyped DEF Stored
  <2> QED
    BY <2>1, <2>2
<1>2. /\ request[r] = NotBegun
      /\ request' = [request EXCEPT ![r] = begun]
      /\ UNCHANGED <<credential, secret, restarts>>
      /\ secret \in Secrets \cup {NoSecret}
  BY DEF BeginDelete, BeginSet, CredInv, CredTypeOK
<1>3. /\ begun \in CredentialRequest
      /\ begun.at \notin {"idle", "refresh"}
      /\ begun.status \notin {"201", "204"}
      /\ begun.at # "answered" => begun.status = "none"
      /\ begun.found \in {NoRow, get_credential}
      /\ begun.op = "set" /\ begun.at \in InProgress => begun.sealed \in Secrets
  <2>1. CASE BeginDelete(r)
    <3>1. begun = IF get_credential = NoRow
                  THEN [NotBegun EXCEPT !.op = "delete", !.at = "answered", !.status = "404"]
                  ELSE [NotBegun EXCEPT !.op = "delete", !.at = "commit", !.found = get_credential]
      BY <2>1 DEF BeginDelete, CredInv, CredTypeOK
    <3> HIDE DEF begun
    <3> QED
      BY <1>1, <3>1 DEF NotBegun, CredentialRequest, InProgress
  <2>2. ASSUME NEW usable \in BOOLEAN, BeginSet(r, usable)
        PROVE  <1>3
    <3>1. \/ begun = [NotBegun EXCEPT !.op = "set", !.at = "answered", !.status = "400"]
          \/ begun = [NotBegun EXCEPT !.op = "set", !.at = "answered", !.status = "500"]
          \/ /\ begun = [op |-> "set", at |-> IF get_credential = NoRow THEN "commit" ELSE "flush",
                         found |-> get_credential, sealed |-> secret, status |-> "none"]
             /\ secret # NoSecret
      BY <2>2 DEF BeginSet, CredInv, CredTypeOK
    <3> HIDE DEF begun
    <3>2. CASE begun = [NotBegun EXCEPT !.op = "set", !.at = "answered", !.status = "400"]
      BY <3>2 DEF NotBegun, CredentialRequest, InProgress
    <3>3. CASE begun = [NotBegun EXCEPT !.op = "set", !.at = "answered", !.status = "500"]
      BY <3>3 DEF NotBegun, CredentialRequest, InProgress
    <3>4. CASE /\ begun = [op |-> "set", at |-> IF get_credential = NoRow THEN "commit" ELSE "flush",
                           found |-> get_credential, sealed |-> secret, status |-> "none"]
               /\ secret # NoSecret
      <4>1. get_credential \in Requests \cup {NoRow}
        BY <1>1
      <4>2. (IF get_credential = NoRow THEN "commit" ELSE "flush") \in {"commit", "flush"}
        OBVIOUS
      <4> QED
        BY <1>2, <3>4, <4>1, <4>2 DEF CredentialRequest, InProgress
    <3> QED
      BY <3>1, <3>2, <3>3, <3>4
  <2> QED
    BY <2>1, <2>2
<1> QED
  BY <1>1, <1>2, <1>3

\* The two that begin.
LEMMA BeginsKeep ==
  ASSUME CredInv, NEW r \in Requests,
         BeginDelete(r) \/ \E usable \in BOOLEAN : BeginSet(r, usable)
  PROVE  CredInv'
<1>1. request[r].at = "idle"
  BY Begun DEF NotBegun
<1> QED
  BY <1>1, Begun, MoveKeeps

\* The delete flushed ahead of the insert.
LEMMA FlushKeeps ==
  ASSUME CredInv, NEW r \in Requests, FlushDelete(r)
  PROVE  CredInv'
<1>1. /\ request[r] \in CredentialRequest
      /\ request[r].at = "flush"
      /\ request[r].status = "none"
      /\ request[r].sealed \in Secrets
      /\ request'[r] = [request[r] EXCEPT !.at = "commit"]
      /\ request' = [request EXCEPT ![r] = request'[r]]
      /\ UNCHANGED <<credential, secret, restarts>>
  BY DEF FlushDelete, CredInv, CredTypeOK, StatusLast, SealedWhileSet, InProgress
<1>2. /\ request'[r] \in CredentialRequest
      /\ request'[r].at = "commit" /\ request'[r].status = "none"
      /\ request'[r].found = request[r].found
      /\ request'[r].sealed \in Secrets
  BY <1>1 DEF CredentialRequest, InProgress
<1> QED
  BY <1>1, <1>2, MoveKeeps

\* The insert and the commit: the row read is gone and its successor there.
LEMMA CommitKeeps ==
  ASSUME CredInv, NEW r \in Requests, CommitSet(r)
  PROVE  CredInv'
<1>1. CASE Met(r) # {}
  <2>1. Answered(r, "500") /\ UNCHANGED <<credential, secret, restarts>>
    BY <1>1 DEF CommitSet
  <2> QED
    BY <2>1, AnswerKeeps
<1>2. CASE Met(r) = {}
  <2> DEFINE row == [id |-> r, sealed |-> request[r].sealed]
  <2>1. /\ request[r].at = "commit" /\ request[r].op = "set"
        /\ request' = [request EXCEPT ![r].at = "refresh"]
        /\ credential' = {row}
        /\ UNCHANGED <<secret, restarts>>
        /\ request \in [Requests -> CredentialRequest]
    BY <1>2 DEF CommitSet, CredInv, CredTypeOK
  <2>2. request[r].sealed \in Secrets
    BY <2>1 DEF CredInv, SealedWhileSet, InProgress
  <2>3. /\ request' \in [Requests -> CredentialRequest]
        /\ \A q \in Requests \ {r} : request'[q] = request[q]
        /\ request'[r].at = "refresh" /\ request'[r].status = request[r].status
        /\ request'[r].found = request[r].found /\ request'[r].sealed = request[r].sealed
    BY <2>1 DEF CredentialRequest, InProgress
  <2>4. CredTypeOK' /\ OneRow'
    BY <2>1, <2>2, <2>3 DEF CredInv, CredTypeOK, Credential, OneRow
  <2>5. \A id \in Requests : Written(id) => Written(id)'
    BY <2>3 DEF Written
  <2>6. RowsWritten'
    BY <2>1, <2>3 DEF RowsWritten, Written
  <2>7. \A q \in Requests : request'[q].found = request[q].found /\ request[q].found \in Requests \cup {NoRow}
    BY <2>1, <2>3 DEF CredentialRequest
  <2>8. FoundWritten'
    BY <2>5, <2>7 DEF CredInv, FoundWritten
  <2>9. \A q \in Requests : request[q].found # r
    <3>1. ~ Written(r) /\ r # NoRow
      BY <2>1, NoRowAssumption DEF Written
    <3> QED
      BY <3>1 DEF CredInv, FoundWritten
  <2>10. FoundGone'
    BY <2>1, <2>7, <2>9 DEF FoundGone
  <2>11. StatusLast' /\ SealedWhileSet'
    BY <2>1, <2>2, <2>3 DEF CredInv, StatusLast, SealedWhileSet
  <2> QED
    BY <2>4, <2>6, <2>8, <2>10, <2>11 DEF CredInv
<1> QED
  BY <1>1, <1>2

\* The commit of a delete.
LEMMA DeleteKeeps ==
  ASSUME CredInv, NEW r \in Requests, CommitDelete(r)
  PROVE  CredInv'
<1>1. /\ Answered(r, "204")
      /\ credential' = {c \in credential : c.id # request[r].found}
      /\ UNCHANGED <<secret, restarts>>
  BY DEF CommitDelete
<1>2. /\ request' \in [Requests -> CredentialRequest]
      /\ \A q \in Requests \ {r} : request'[q] = request[q]
      /\ request'[r].at = "answered" /\ request'[r].status = "204"
      /\ request'[r].found = request[r].found
  BY <1>1, AnswerChanges
<1>3. CredTypeOK' /\ OneRow'
  BY <1>1, <1>2 DEF CredInv, CredTypeOK, OneRow
<1>4. \A id \in Requests : Written(id) => Written(id)'
  BY <1>2 DEF Written
<1>5. \A c \in credential : c.id \in Requests
  BY DEF CredInv, CredTypeOK, Credential
<1>6. RowsWritten'
  BY <1>1, <1>4, <1>5 DEF CredInv, RowsWritten
<1>7. \A q \in Requests : request'[q].found = request[q].found /\ request[q].found \in Requests \cup {NoRow}
  BY <1>2 DEF CredInv, CredTypeOK, CredentialRequest
<1>8. FoundWritten'
  BY <1>4, <1>7 DEF CredInv, FoundWritten
<1>9. FoundGone' /\ StatusLast' /\ SealedWhileSet'
  BY <1>1, <1>2, <1>7 DEF CredInv, FoundGone, StatusLast, SealedWhileSet, InProgress
<1> QED
  BY <1>3, <1>6, <1>8, <1>9 DEF CredInv

\* A restart: what was under way is gone, the table is not.
LEMMA RestartKeeps ==
  ASSUME CredInv, NEW new \in Secrets \cup {NoSecret}, RestartRequests(new)
  PROVE  CredInv'
<1> DEFINE Cut(r) == IF request[r].at \in InProgress
                     THEN [request[r] EXCEPT !.at = "answered", !.status = "gone"] ELSE request[r]
<1>1. /\ request' = [r \in Requests |-> Cut(r)]
      /\ credential' = credential /\ secret' = new
      /\ request \in [Requests -> CredentialRequest]
  BY DEF RestartRequests, CredInv, CredTypeOK
<1>2. \A r \in Requests :
        /\ request'[r] \in CredentialRequest
        /\ request'[r].found = request[r].found
        /\ request'[r].sealed = request[r].sealed
        /\ (request'[r].at = "answered" /\ request'[r].status = "gone") \/ request'[r] = request[r]
        /\ request'[r].at \notin InProgress
  <2> SUFFICES ASSUME NEW r \in Requests
               PROVE  /\ request'[r] \in CredentialRequest
                      /\ request'[r].found = request[r].found
                      /\ request'[r].sealed = request[r].sealed
                      /\ \/ request'[r].at = "answered" /\ request'[r].status = "gone"
                         \/ request'[r] = request[r]
                      /\ request'[r].at \notin InProgress
    OBVIOUS
  <2>1. request'[r] = Cut(r) /\ request[r] \in CredentialRequest
    BY <1>1
  <2>2. CASE request[r].at \in InProgress
    <3>1. request'[r] = [request[r] EXCEPT !.at = "answered", !.status = "gone"]
      BY <2>1, <2>2
    <3> QED
      BY <2>1, <3>1 DEF CredentialRequest, InProgress
  <2>3. CASE request[r].at \notin InProgress
    BY <2>1, <2>3
  <2> QED
    BY <2>2, <2>3
<1>3. request' \in [Requests -> CredentialRequest]
  <2> HIDE DEF Cut
  <2> QED
    BY <1>1, <1>2
<1>4. restarts' \in 0..MaxRestarts
  <2>1. restarts \in 0..MaxRestarts /\ restarts < MaxRestarts /\ restarts' = restarts + 1
    BY DEF RestartRequests, CredInv, CredTypeOK
  <2> QED
    BY <2>1, MaxRestartsAssumption
<1>5. CredTypeOK' /\ OneRow'
  BY <1>1, <1>3, <1>4 DEF CredInv, CredTypeOK, OneRow
<1>6. \A id \in Requests : Written(id) => Written(id)'
  BY <1>2 DEF Written
<1>7. \A c \in credential : c.id \in Requests
  BY DEF CredInv, CredTypeOK, Credential
<1>8. RowsWritten'
  BY <1>1, <1>6, <1>7 DEF CredInv, RowsWritten
<1>9. FoundWritten'
  <2>1. \A r \in Requests : request[r].found \in Requests \cup {NoRow}
    BY <1>1 DEF CredentialRequest
  <2> QED
    BY <1>2, <1>6, <2>1 DEF CredInv, FoundWritten
<1>10. FoundGone' /\ StatusLast' /\ SealedWhileSet'
  BY <1>1, <1>2 DEF CredInv, FoundGone, StatusLast, SealedWhileSet, InProgress
<1> QED
  BY <1>5, <1>8, <1>9, <1>10 DEF CredInv

\* Every step of the store keeps it sound.
LEMMA StoreKeeps ==
  ASSUME CredInv, CredStoreNext \/ UNCHANGED credVars
  PROVE  CredInv'
<1>1. ASSUME NEW r \in Requests, BeginDelete(r) \/ \E usable \in BOOLEAN : BeginSet(r, usable)
      PROVE  CredInv'
  BY <1>1, BeginsKeep
<1>2. ASSUME NEW r \in Requests, CredentialStep(r)
      PROVE  CredInv'
  <2>1. CASE RefreshSet(r)
    <3>1. /\ UNCHANGED <<credential, secret, restarts>>
          /\ request[r].at = "refresh"
          /\ Answered(r, "201") \/ Answered(r, "500")
      BY <2>1 DEF RefreshSet
    <3> QED
      BY <3>1, AnswerKeeps
  <2> QED
    BY <1>2, <2>1, FlushKeeps, CommitKeeps, DeleteKeeps DEF CredentialStep
<1>3. ASSUME NEW r \in Requests, Die(r)
      PROVE  CredInv'
  BY <1>3, AnswerKeeps DEF Die
<1>4. ASSUME NEW new \in Secrets \cup {NoSecret}, RestartRequests(new)
      PROVE  CredInv'
  BY <1>4, RestartKeeps
<1>5. CASE UNCHANGED credVars
  BY <1>5 DEF credVars, CredInv, CredTypeOK, OneRow, RowsWritten, FoundWritten, Written, FoundGone,
              StatusLast, SealedWhileSet
<1> QED
  BY <1>1, <1>2, <1>3, <1>4, <1>5 DEF CredStoreNext, CredentialNext

\* What a request that was under way can have been answered by.
LEMMA Causes ==
  ASSUME CredInv, CredStoreNext, NEW r \in Requests,
         request[r].at # "answered", request'[r].status # "none"
  PROVE  /\ request'[r].status = "201" => RefreshSet(r) /\ Stored(r)
         /\ request'[r].status = "500" /\ request[r].at = "commit" =>
              Met(r) # {} /\ request'[r].found = request[r].found
         /\ request'[r].status = "500" /\ request[r].at = "refresh" => ~ Stored(r)
<1>0. request[r].status = "none" /\ request \in [Requests -> CredentialRequest]
  BY DEF CredInv, StatusLast, CredTypeOK
<1>1. ASSUME NEW new \in Secrets \cup {NoSecret}, RestartRequests(new)
      PROVE  request'[r].status = "gone"
  BY <1>0, <1>1 DEF RestartRequests, CredentialRequest, InProgress
<1>2. PICK p \in Requests :
        \/ \E new \in Secrets \cup {NoSecret} : RestartRequests(new)
        \/ BeginDelete(p) \/ \E usable \in BOOLEAN : BeginSet(p, usable)
        \/ CredentialStep(p) \/ Die(p)
  BY DEF CredStoreNext, CredentialNext
<1>3. ASSUME ~ \E new \in Secrets \cup {NoSecret} : RestartRequests(new)
      PROVE  p = r
  <2> SUFFICES ASSUME p # r PROVE request'[r] = request[r]
    BY <1>0
  <2>1. CASE BeginDelete(p) \/ \E usable \in BOOLEAN : BeginSet(p, usable)
    BY <1>0, <2>1 DEF BeginDelete, BeginSet
  <2>2. CASE FlushDelete(p)
    BY <1>0, <2>2 DEF FlushDelete
  <2>3. CASE CommitSet(p)
    BY <1>0, <2>3 DEF CommitSet, Answered
  <2>4. CASE RefreshSet(p)
    BY <1>0, <2>4 DEF RefreshSet, Answered
  <2>5. CASE CommitDelete(p) \/ Die(p)
    BY <1>0, <2>5 DEF CommitDelete, Die, Answered
  <2> QED
    BY <1>2, <1>3, <2>1, <2>2, <2>3, <2>4, <2>5 DEF CredentialStep
<1>4. CASE p = r /\ (BeginDelete(p) \/ \E usable \in BOOLEAN : BeginSet(p, usable))
  <2>1. request[r].at = "idle"
    BY <1>4 DEF BeginDelete, BeginSet, NotBegun
  <2>2. request'[r].status # "201"
    BY <1>4, Begun
  <2> QED
    BY <2>1, <2>2
<1>5. CASE p = r /\ FlushDelete(r)
  BY <1>0, <1>5 DEF FlushDelete, CredentialRequest
<1>6. CASE p = r /\ CommitSet(r)
  <2>1. CASE Met(r) # {}
    BY <1>6, <2>1, AnswerChanges DEF CommitSet
  <2>2. CASE Met(r) = {}
    BY <1>0, <1>6, <2>2 DEF CommitSet, CredentialRequest
  <2> QED
    BY <2>1, <2>2
<1>7. CASE p = r /\ RefreshSet(r)
  <2>1. CASE Stored(r)
    BY <1>7, <2>1, AnswerChanges DEF RefreshSet
  <2>2. CASE ~ Stored(r)
    BY <1>7, <2>2, AnswerChanges DEF RefreshSet
  <2> QED
    BY <2>1, <2>2
<1>8. CASE p = r /\ CommitDelete(r)
  BY <1>8, AnswerChanges DEF CommitDelete
<1>9. CASE p = r /\ Die(r)
  BY <1>9, AnswerChanges DEF Die
<1> QED
  BY <1>1, <1>2, <1>3, <1>4, <1>5, <1>6, <1>7, <1>8, <1>9 DEF CredentialStep

-----------------------------------------------------------------------------
\* A step of the composition is a step of the credential store or none.
LEMMA StepsOfTheStore == [RunNext]_runVars => CredStoreNext \/ UNCHANGED credVars
BY DEF RunNext, runVars, StartScan, PersistStep, ScanDies, ProbeStep, ProbeEnds, HandOver, Restart,
       CredStoreNext

\* The credential table is sound in every reachable state of the composition.
THEOREM CredentialsSound == RunSpec => []CredInv
<1>1. RunInit => CredInv
  BY InitCredInv DEF RunInit
<1>2. CredInv /\ [RunNext]_runVars => CredInv'
  BY StepsOfTheStore, StoreKeeps
<1> QED
  BY <1>1, <1>2, PTL DEF RunSpec

\* A row leaves the table only with the commit of a request that had read it,
\* and a replaced one only together with the arrival of its successor: a scan
\* that starts at any moment of a replacement finds one of the two.
THEOREM ReplacementsLeaveNoGap == RunSpec => ReplacedNotRemoved
<1>1. ASSUME CredInv, CredStoreNext
      PROVE  \A c \in credential \ credential' :
               \E r \in Requests :
                 /\ request[r].found = c.id
                 /\ request[r].at = "commit" /\ request'[r].at # "commit"
                 /\ request[r].op = "set" => \E n \in credential' : n.id = r
  <2> SUFFICES ASSUME NEW c \in credential, c \notin credential'
               PROVE  \E r \in Requests :
                        /\ request[r].found = c.id
                        /\ request[r].at = "commit" /\ request'[r].at # "commit"
                        /\ request[r].op = "set" => \E n \in credential' : n.id = r
    OBVIOUS
  <2>1. PICK r \in Requests : CommitSet(r) \/ CommitDelete(r)
    BY <1>1 DEF CredStoreNext, CredentialNext, CredentialStep, RestartRequests, BeginSet, BeginDelete,
                FlushDelete, RefreshSet, Die
  <2>2. CASE CommitSet(r)
    <3>1. /\ request[r].at = "commit"
          /\ Met(r) = {}
          /\ request' = [request EXCEPT ![r].at = "refresh"]
          /\ credential' = {[id |-> r, sealed |-> request[r].sealed]}
      BY <2>2 DEF CommitSet
    <3>2. request[r].found = c.id
      BY <3>1 DEF Met
    <3>3. request'[r].at = "refresh"
      BY <1>1, <3>1 DEF CredInv, CredTypeOK, CredentialRequest
    <3> QED
      BY <3>1, <3>2, <3>3
  <2>3. CASE CommitDelete(r)
    <3>1. /\ request[r].at = "commit" /\ request[r].op = "delete"
          /\ Answered(r, "204")
          /\ request[r].found = c.id
      BY <2>3 DEF CommitDelete
    <3>2. request'[r].at = "answered"
      BY <1>1, <3>1, AnswerChanges
    <3> QED
      BY <3>1, <3>2
  <2> QED
    BY <2>1, <2>2, <2>3
<1>2. CredInv /\ [RunNext]_runVars =>
        [\A c \in credential \ credential' :
           \E r \in Requests :
             /\ request[r].found = c.id
             /\ request[r].at = "commit" /\ request'[r].at # "commit"
             /\ request[r].op = "set" => \E n \in credential' : n.id = r]_credVars
  BY <1>1, StepsOfTheStore
<1> QED
  BY <1>2, CredentialsSound, PTL DEF RunSpec, ReplacedNotRemoved

\* The answers of the credential requests mean what they say, however many
\* race: a 201 has its row, what a 201 or 204 removed is gone for good, and a
\* 500 is due to another request.
THEOREM AnswersHold == RunSpec => AnswersAreTrue
<1>1. ASSUME CredInv, CredInv', CredStoreNext, NEW r \in Requests
      PROVE  LET q       == request'[r]
                 answers == request[r].at # "answered"
             IN  /\ answers /\ q.status = "201" => Stored(r)'
                 /\ q.status \in {"201", "204"} => ~ \E c \in credential' : c.id = q.found
                 /\ answers /\ q.status = "500" /\ request[r].at = "commit" =>
                      {c.id : c \in credential} # {q.found} \ {NoRow}
                 /\ answers /\ q.status = "500" /\ request[r].at = "refresh" => ~ Stored(r)
  <2>1. request'[r].status \in {"201", "204"} => ~ \E c \in credential' : c.id = request'[r].found
    BY <1>1 DEF CredInv, FoundGone
  <2>2. ASSUME request[r].at # "answered", request'[r].status = "201"
        PROVE  Stored(r)'
    <3>1. request[r].status = "none" /\ request'[r] # request[r]
      BY <1>1, <2>2 DEF CredInv, StatusLast
    <3>2. RefreshSet(r) /\ Stored(r)
      BY <1>1, <2>2, <3>1, Causes
    <3> QED
      BY <3>2 DEF RefreshSet, Stored
  <2>3. ASSUME request[r].at = "commit", request'[r].status = "500"
        PROVE  {c.id : c \in credential} # {request'[r].found} \ {NoRow}
    <3>1. /\ Met(r) # {}
          /\ request'[r].found = request[r].found
      BY <1>1, <2>3, Causes
    <3> QED
      BY <3>1 DEF Met
  <2>4. ASSUME request[r].at = "refresh", request'[r].status = "500"
        PROVE  ~ Stored(r)
    BY <1>1, <2>4, Causes
  <2> QED
    BY <2>1, <2>2, <2>3, <2>4
<1>2. CredInv /\ CredInv' /\ [RunNext]_runVars =>
        [\A r \in Requests :
           LET q       == request'[r]
               answers == request[r].at # "answered"
           IN  /\ answers /\ q.status = "201" => Stored(r)'
               /\ q.status \in {"201", "204"} => ~ \E c \in credential' : c.id = q.found
               /\ answers /\ q.status = "500" /\ request[r].at = "commit" =>
                    {c.id : c \in credential} # {q.found} \ {NoRow}
               /\ answers /\ q.status = "500" /\ request[r].at = "refresh" => ~ Stored(r)]_credVars
  BY <1>1, StepsOfTheStore
<1> QED
  BY <1>2, CredentialsSound, PTL DEF RunSpec, AnswersAreTrue

-----------------------------------------------------------------------------
\* What the probe of a scan does to its credential and to what is on the wire.
LEMMA ProbeStepKeeps ==
  ASSUME AuthInv, ProbeStep
  PROVE  AuthInv'
<1>1. /\ UNCHANGED <<policy, engagement, adapter, probing>>
      /\ probing # NotProbing
      /\ \/ wire' = wire
         \/ wire' = wire \cup {[url |-> current, credential |-> policy.auth]}
         \/ /\ wire' = wire \cup {[url |-> Target, credential |-> NoAuth]}
            /\ adapter.name = "tls"
  <2>1. Next /\ probing # NotProbing /\ probing' = probing
    BY DEF ProbeStep
  <2>2. CASE FetchStep
    BY <2>1, <2>2 DEF FetchStep, Request, Receive, Answer, MissingLocation, RedirectOutOfScope,
                      RedirectInScope, NetworkError, probeVars, setup
  <2>3. CASE Handshake
    BY <2>1, <2>3 DEF Handshake, NeedsHandshake, setup
  <2>4. CASE Probe
    BY <2>1, <2>4 DEF Probe, Begin, setup
  <2>5. CASE Gate \/ SkipTarget \/ ProbeFailed \/ Persist
    BY <2>1, <2>5 DEF Gate, SkipTarget, ProbeFailed, Persist, fetchVars, setup
  <2>6. CASE AdapterRefused \/ \E fired \in BOOLEAN : Capture(fired)
    BY <2>1, <2>6 DEF AdapterRefused, Capture, setup
  <2> QED
    BY <2>1, <2>2, <2>3, <2>4, <2>5, <2>6 DEF Next
<1>2. \A w \in wire' : w.credential = probing.auth \/ (w.credential = NoAuth /\ adapter.name = "tls")
  <2>1. \A w \in wire : w.credential = probing.auth \/ (w.credential = NoAuth /\ adapter.name = "tls")
    BY DEF AuthInv
  <2>2. policy.auth = probing.auth
    BY DEF AuthInv
  <2> SUFFICES ASSUME NEW w \in wire', w \notin wire
               PROVE  w.credential = probing.auth \/ (w.credential = NoAuth /\ adapter.name = "tls")
    BY <2>1
  <2>3. CASE wire' = wire \cup {[url |-> current, credential |-> policy.auth]}
    <3>1. w = [url |-> current, credential |-> policy.auth]
      BY <2>3
    <3> QED
      BY <2>2, <3>1
  <2>4. CASE wire' = wire \cup {[url |-> Target, credential |-> NoAuth]} /\ adapter.name = "tls"
    <3>1. w = [url |-> Target, credential |-> NoAuth]
      BY <2>4
    <3> QED
      BY <2>4, <3>1
  <2>5. CASE wire' = wire
    BY <2>5
  <2> QED
    BY <1>1, <2>3, <2>4, <2>5, Zenon
<1>3. probing' = probing /\ adapter' = adapter /\ policy' = policy /\ engagement' = engagement
  BY <1>1
<1> QED
  BY <1>1, <1>2, <1>3, Zenon DEF AuthInv

\* The end of a probe takes everything of it along.
LEMMA ProbeOverKeeps ==
  ASSUME AuthInv, ProbeOver
  PROVE  AuthInv'
<1>1. /\ probing' = NotProbing
      /\ engagement' = [engagement EXCEPT !.auth = NoAuth]
      /\ policy' = ScanPolicy(engagement')
      /\ wire' = {}
  BY DEF ProbeOver
<1>2. engagement' \in Engagements /\ engagement'.auth = NoAuth
  BY <1>1, StoredAuthAssumption DEF AuthInv
<1> QED
  BY <1>1, <1>2 DEF AuthInv, NotProbing, ScanPolicy

\* A scan that starts has the credential it asked for, or does not start.
LEMMA StartKeeps ==
  ASSUME CredInv, AuthInv, NEW s \in Scans, NEW authenticated \in BOOLEAN,
         StartScan(s, authenticated)
  PROVE  AuthInv'
<1> DEFINE auth == IF authenticated THEN load_auth ELSE Anonymous
<1>1. load_auth \in Requests \cup {Anonymous, Unreadable}
  <2>1. CASE credential = {}
    BY <2>1 DEF load_auth
  <2>2. CASE credential # {}
    <3>1. (CHOOSE c \in credential : TRUE).id \in Requests
      BY <2>2, RowTyped
    <3> QED
      BY <2>2, <3>1 DEF load_auth
  <2> QED
    BY <2>1, <2>2
<1>2. CASE authenticated /\ auth \in {Anonymous, Unreadable}
  <2>1. UNCHANGED <<policy, engagement, adapter, wire, probing>>
    BY <1>2 DEF StartScan, vars, fetchVars, probeVars, setup
  <2> QED
    BY <2>1 DEF AuthInv
<1>3. CASE ~ (authenticated /\ auth \in {Anonymous, Unreadable})
  <2> DEFINE given == IF auth = Anonymous THEN NoAuth ELSE auth
  <2>1. /\ probing' = [scan |-> s, authenticated |-> authenticated, auth |-> given]
        /\ engagement' = [engagement EXCEPT !.auth = probing'.auth]
        /\ policy' = ScanPolicy(engagement')
        /\ wire' = wire
        /\ probing = NotProbing
    BY <1>3 DEF StartScan
  <2>2. /\ given \in Requests \cup {NoAuth}
        /\ authenticated <=> given # NoAuth
    BY <1>1, <1>3, StoredAuthAssumption
  <2> HIDE DEF given
  <2>3. engagement' \in Engagements /\ engagement'.auth = given
    BY <2>1, <2>2, StoredAuthAssumption DEF AuthInv
  <2>4. wire' = {}
    BY <2>1 DEF AuthInv
  <2> QED
    BY <2>1, <2>2, <2>3, <2>4 DEF AuthInv, ScanPolicy
<1> QED
  BY <1>2, <1>3

\* Every step keeps it.
LEMMA RunKeeps ==
  ASSUME CredInv, AuthInv, [RunNext]_runVars
  PROVE  AuthInv'
<1>1. CASE UNCHANGED <<vars, probing>>
  BY <1>1 DEF AuthInv, vars, fetchVars, probeVars, setup
<1>2. ASSUME NEW s \in Scans, NEW authenticated \in BOOLEAN, StartScan(s, authenticated)
      PROVE  AuthInv'
  BY <1>2, StartKeeps
<1>3. CASE ProbeStep
  BY <1>3, ProbeStepKeeps
<1>4. CASE ProbeOver
  BY <1>4, ProbeOverKeeps
<1>5. RunNext => \/ \E s \in Scans, authenticated \in BOOLEAN : StartScan(s, authenticated)
                 \/ ProbeStep
                 \/ ProbeOver
                 \/ UNCHANGED <<vars, probing>>
  BY DEF RunNext, PersistStep, ScanDies, ProbeEnds, HandOver, Restart
<1> QED
  BY <1>1, <1>2, <1>3, <1>4, <1>5 DEF runVars

\* A scan presents the credential that was stored when it started, in every
\* request, or none if it was not asked to, whatever happens to the table and
\* to the secret meanwhile.
THEOREM ScansPresentWhatTheyLoaded == RunSpec => []ScanIsAsAsked
<1>1. RunInit => AuthInv
  <2> SUFFICES ASSUME RunInit PROVE AuthInv
    OBVIOUS
  <2>1. /\ engagement \in Engagements /\ engagement.auth = NoAuth
        /\ policy = ScanPolicy(engagement)
        /\ wire = {}
        /\ probing = NotProbing
    BY DEF RunInit, Init, FetchInit
  <2> QED
    BY <2>1 DEF AuthInv, NotProbing, ScanPolicy
<1>2. CredInv /\ AuthInv /\ [RunNext]_runVars => AuthInv'
  BY RunKeeps
<1>3. AuthInv => ScanIsAsAsked
  BY DEF AuthInv, ScanIsAsAsked
<1> QED
  BY <1>1, <1>2, <1>3, CredentialsSound, PTL DEF RunSpec

-----------------------------------------------------------------------------
(***************************************************************************)
(* What is stored.  The scope of the engagement is the same in every state:  *)
(* only the credential of its policy comes and goes with the probes.  So a   *)
(* URL that was in scope when a probe captured it is in scope for ever, in   *)
(* the drafts handed over, in the rows a session holds and in the table.     *)
(***************************************************************************)

\* A probe under way is a run of ScanProbe; between two there is nothing of it.
ProbeInv ==
  /\ IndInv
  /\ AttributionInv
  /\ probing = NotProbing => pc = "gate" /\ phase = "idle" /\ wire = {} /\ captured = <<>>

\* A URL that may be stored.
Storable(url) == url \in Urls /\ is_in_scope(policy, url)

\* A row of the finding table, as far as its key is concerned.
KeyedRow(row) == "key" \in DOMAIN row /\ Storable(row.key)

StoredInv ==
  /\ DOMAIN by_key = Scans
  /\ next \in [Scans -> Nat \ {0}]
  /\ persist_captured \in [Scans -> Seq(Store!FindingDraft)]
  /\ \A s \in Scans : \A n \in DOMAIN persist_captured[s] : Storable(persist_captured[s][n].key)
  /\ \A s \in Scans : \A k \in DOMAIN by_key[s] :
       "row" \in DOMAIN by_key[s][k] /\ KeyedRow(by_key[s][k].row)
  /\ \A i \in DOMAIN findings : KeyedRow(findings[i])

\* The end of a probe leaves nothing behind.
LEMMA ProbeOverClears ==
  ASSUME ProbeInv, ProbeOver
  PROVE  ProbeInv'
<1>1. /\ pc' = "gate" /\ phase' = "idle" /\ wire' = {} /\ captured' = <<>>
      /\ max_redirects' = 0 /\ current' = NoUrl /\ chain' = <<>> /\ outcome' = NoOutcome
      /\ index' = 1 /\ handshake' = FALSE /\ scanned' = 0 /\ skipped' = 0
      /\ adapter' = adapter /\ safe_mode' = safe_mode
      /\ engagement' = [engagement EXCEPT !.auth = NoAuth]
      /\ policy' = ScanPolicy(engagement')
  BY DEF ProbeOver, End
<1>2. engagement' \in Engagements
  BY <1>1, StoredAuthAssumption DEF ProbeInv, IndInv, Engagement
<1>3. TypeOK'
  <2>1. FetchTypeOK'
    <3>1. chain' \in Seq(Urls) /\ wire' \subseteq WireRequest
      BY <1>1
    <3> QED
      BY <1>1, <3>1 DEF FetchTypeOK
  <2>2. captured' \in Seq(CapturedDraft)
    BY <1>1
  <2>3. adapter' \in Adapters /\ safe_mode' \in BOOLEAN
    BY <1>1 DEF ProbeInv, IndInv, TypeOK
  <2>4. /\ pc' \in {"gate", "loop", "probe", "not_permitted", "persist", "failed"}
        /\ index' \in Nat \ {0} /\ scanned' \in Nat /\ skipped' \in Nat
    BY <1>1
  <2>5. handshake' \in BOOLEAN
    BY <1>1
  <2> QED
    BY <1>2, <2>1, <2>2, <2>3, <2>4, <2>5 DEF TypeOK
<1>4. Engagement'
  BY <1>1, <1>2 DEF Engagement
<1>5. ScopeInv' /\ BudgetInv' /\ OutcomeInv' /\ IndexInv'
  BY <1>1 DEF ScopeInv, BudgetInv, OutcomeInv, IndexInv
<1>6. EvidenceNamesResponder' /\ AttributionInv'
  BY <1>1 DEF EvidenceNamesResponder, AttributionInv
<1> QED
  BY <1>1, <1>3, <1>4, <1>5, <1>6 DEF ProbeInv, IndInv

\* A scan that starts changes the credential of the policy and nothing else.
LEMMA StartProbes ==
  ASSUME ProbeInv, CredInv, NEW s \in Scans, NEW authenticated \in BOOLEAN,
         StartScan(s, authenticated)
  PROVE  ProbeInv'
<1>1. CASE UNCHANGED <<vars, probing>>
  BY <1>1 DEF vars, fetchVars, callVars, probeVars, setup, ProbeInv, IndInv, TypeOK, FetchTypeOK,
              Engagement, ScopeInv, BudgetInv, OutcomeInv, IndexInv, EvidenceNamesResponder,
              AttributionInv, Requested
<1>2. CASE ~ UNCHANGED <<vars, probing>>
  <2> PICK given : given = probing'.auth
    OBVIOUS
  <2>1. /\ probing = NotProbing
        /\ given \in Requests \cup {NoAuth}
        /\ engagement' = [engagement EXCEPT !.auth = given]
        /\ policy' = ScanPolicy(engagement')
        /\ UNCHANGED <<phase, callVars, outcome, wire, adapter, safe_mode, pc, index, handshake,
                       scanned, skipped, captured>>
    <3> DEFINE auth == IF authenticated THEN load_auth ELSE Anonymous
    <3>1. load_auth \in Requests \cup {Anonymous, Unreadable}
      BY RowTyped DEF load_auth
    <3>2. ~ (authenticated /\ auth \in {Anonymous, Unreadable})
      BY <1>2 DEF StartScan
    <3>3. /\ probing' = [scan |-> s, authenticated |-> authenticated,
                         auth |-> IF auth = Anonymous THEN NoAuth ELSE auth]
          /\ probing = NotProbing
          /\ engagement' = [engagement EXCEPT !.auth = probing'.auth]
          /\ policy' = ScanPolicy(engagement')
          /\ UNCHANGED <<phase, callVars, outcome, wire, adapter, safe_mode, pc, index, handshake,
                         scanned, skipped, captured>>
      BY <3>2 DEF StartScan
    <3>4. given \in Requests \cup {NoAuth}
      BY <3>1, <3>2, <3>3
    <3> QED
      BY <3>3, <3>4
  <2>2. /\ pc = "gate" /\ phase = "idle" /\ wire = {} /\ captured = <<>>
    BY <2>1 DEF ProbeInv
  <2>3. engagement' \in Engagements
    BY <2>1, StoredAuthAssumption DEF ProbeInv, IndInv, Engagement
  <2>4. TypeOK'
    <3>1. TypeOK
      BY DEF ProbeInv, IndInv
    <3> QED
      BY <2>1, <2>3, <3>1 DEF TypeOK, FetchTypeOK, callVars
  <2>5. Engagement'
    BY <2>1, <2>3 DEF Engagement
  <2>6. ScopeInv' /\ BudgetInv' /\ OutcomeInv' /\ IndexInv'
    BY <2>1, <2>2 DEF ScopeInv, BudgetInv, OutcomeInv, IndexInv, callVars, ProbeInv, IndInv
  <2>7. EvidenceNamesResponder' /\ AttributionInv'
    BY <2>1, <2>2 DEF EvidenceNamesResponder, AttributionInv
  <2>8. pc' = "gate" /\ phase' = "idle" /\ wire' = {} /\ captured' = <<>>
    BY <2>1, <2>2
  <2> QED
    BY <2>4, <2>5, <2>6, <2>7, <2>8 DEF ProbeInv, IndInv
<1> QED
  BY <1>1, <1>2

\* What the composition does to the variables of the probe.
LEMMA StepsOfTheProbe ==
  ASSUME [RunNext]_runVars
  PROVE  \/ \E s \in Scans, authenticated \in BOOLEAN : StartScan(s, authenticated)
         \/ ProbeStep
         \/ ProbeOver
         \/ UNCHANGED <<vars, probing>>
BY DEF RunNext, runVars, PersistStep, ScanDies, ProbeEnds, HandOver, Restart

\* Every step keeps the invariant of the probes.
LEMMA ProbesKeep ==
  ASSUME CredInv, ProbeInv, [RunNext]_runVars
  PROVE  ProbeInv'
<1>1. CASE ProbeStep
  <2>1. Next /\ probing # NotProbing /\ probing' = probing
    BY <1>1 DEF ProbeStep
  <2>2. IndInv'
    BY <2>1, FetchKeeps, LoopKeeps DEF ProbeInv
  <2>3. AttributionInv'
    BY <2>1, AttributionKeeps DEF ProbeInv
  <2> QED
    BY <2>1, <2>2, <2>3 DEF ProbeInv
<1>2. CASE UNCHANGED <<vars, probing>>
  BY <1>2 DEF vars, fetchVars, callVars, probeVars, setup, ProbeInv, IndInv, TypeOK, FetchTypeOK,
              Engagement, ScopeInv, BudgetInv, OutcomeInv, IndexInv, EvidenceNamesResponder,
              AttributionInv, Requested
<1> QED
  BY <1>1, <1>2, StepsOfTheProbe, ProbeOverClears, StartProbes

\* No step changes what is in scope.
LEMMA ScopeStays ==
  ASSUME CredInv, ProbeInv, [RunNext]_runVars, NEW url, Storable(url)
  PROVE  Storable(url)'
<1>1. /\ policy = ScanPolicy(engagement) /\ engagement \in Engagements
      /\ {"scope_allow", "scope_deny", "auth"} \subseteq DOMAIN engagement
  BY StoredAuthAssumption DEF ProbeInv, IndInv, Engagement
<1>2. policy' = policy \/ \E auth : policy' = ScanPolicy([engagement EXCEPT !.auth = auth])
  <2>1. CASE ProbeStep
    <3>1. policy' = policy
      BY <2>1
         DEF ProbeStep, Next, Gate, SkipTarget, Probe, Begin, FetchStep, Request, Receive, Answer,
             MissingLocation, RedirectOutOfScope, RedirectInScope, NetworkError, AdapterRefused,
             ProbeFailed, Handshake, Capture, Persist, fetchVars
    <3> QED
      BY <3>1
  <2>2. CASE ProbeOver
    BY <2>2 DEF ProbeOver
  <2>3. CASE UNCHANGED <<vars, probing>>
    BY <2>3 DEF vars, fetchVars
  <2>4. CASE \E s \in Scans, authenticated \in BOOLEAN : StartScan(s, authenticated)
    BY <2>4 DEF StartScan, vars, fetchVars
  <2> QED
    BY <2>1, <2>2, <2>3, <2>4, StepsOfTheProbe
<1>3. /\ policy'.allow = policy.allow /\ policy'.deny = policy.deny
      /\ policy'.allow_dangerous_ranges = policy.allow_dangerous_ranges
  <2>1. CASE policy' = policy
    BY <2>1
  <2>2. ASSUME NEW auth, policy' = ScanPolicy([engagement EXCEPT !.auth = auth])
        PROVE  /\ policy'.allow = policy.allow /\ policy'.deny = policy.deny
               /\ policy'.allow_dangerous_ranges = policy.allow_dangerous_ranges
    BY <1>1, <2>2 DEF ScanPolicy
  <2> QED
    BY <1>2, <2>1, <2>2
<1> QED
  BY <1>3 DEF Storable, is_in_scope, matches_deny, matches_allow

\* A scan that starts to persist brings drafts of its probe.
LEMMA HandOverStores ==
  ASSUME ProbeInv, StoredInv, HandOver
  PROVE  /\ persist_captured' \in [Scans -> Seq(Store!FindingDraft)]
         /\ \A s \in Scans : \A n \in DOMAIN persist_captured'[s] :
              Storable(persist_captured'[s][n].key)
<1> PICK drafts : drafts = [n \in DOMAIN captured |-> Draft(captured[n].target)]
  OBVIOUS
<1>0. captured \in Seq(CapturedDraft)
  BY DEF ProbeInv, IndInv, TypeOK
<1>1. persist_captured' = [persist_captured EXCEPT ![probing.scan] = drafts]
  BY DEF HandOver, Store!BeginPersist
<1>2. \A n \in DOMAIN captured : Storable(captured[n].target)
  <2>1. \A n \in DOMAIN captured : captured[n] \in CapturedDraft
    BY <1>0
  <2>2. \A n \in DOMAIN captured : captured[n].target \in Urls
    BY <2>1 DEF CapturedDraft
  <2> QED
    BY <2>2 DEF ProbeInv, AttributionInv, Storable
<1>3. \A n \in DOMAIN drafts : Storable(drafts[n].key)
  BY <1>2 DEF Draft
<1>4. drafts \in Seq(Store!FindingDraft)
  <2>1. \A n \in DOMAIN captured : Draft(captured[n].target) \in Store!FindingDraft
    BY <1>2 DEF Draft, Storable, Store!FindingDraft, Store!Severity
  <2> QED
    BY <1>0, <2>1
<1>5. persist_captured \in [Scans -> Seq(Store!FindingDraft)]
  BY DEF StoredInv
<1>6. \A s \in Scans : persist_captured'[s] = drafts \/ persist_captured'[s] = persist_captured[s]
  BY <1>1, <1>5
<1>7. persist_captured' \in [Scans -> Seq(Store!FindingDraft)]
  BY <1>1, <1>4, <1>5
<1> QED
  BY <1>3, <1>6, <1>7 DEF StoredInv

\* A row of the table that a session reads under a key has that key.
LEMMA ReadKeyed ==
  ASSUME StoredInv, NEW k \in DOMAIN Store!existing_findings_by_key
  PROVE  /\ "row" \in DOMAIN Store!existing_findings_by_key[k]
         /\ KeyedRow(Store!existing_findings_by_key[k].row)
<1>1. DOMAIN Store!existing_findings_by_key = {findings[i].key : i \in DOMAIN findings}
  BY DEF Store!existing_findings_by_key
<1>2. PICK j : j = CHOOSE i \in DOMAIN findings : findings[i].key = k
  OBVIOUS
<1>3. j \in DOMAIN findings
  BY <1>1, <1>2
<1>4. Store!existing_findings_by_key[k] = [id |-> j, row |-> findings[j]]
  BY <1>1, <1>2 DEF Store!existing_findings_by_key
<1> QED
  BY <1>3, <1>4 DEF StoredInv

\* What a step of a scan puts under a key of its session.
LEMMA SessionStores ==
  ASSUME StoredInv, NEW s \in Scans, PersistStep(s)
  PROVE  /\ DOMAIN by_key' = Scans
         /\ \A t \in Scans : \A k \in DOMAIN by_key'[t] :
              "row" \in DOMAIN by_key'[t][k] /\ KeyedRow(by_key'[t][k].row)
<1> PICK B : B = by_key[s]
  OBVIOUS
<1> PICK draft : draft = Store!Draft(s)
  OBVIOUS
<1>1. \A t \in Scans : \A k \in DOMAIN by_key[t] :
        "row" \in DOMAIN by_key[t][k] /\ KeyedRow(by_key[t][k].row)
  BY DEF StoredInv
<1>2. ASSUME NEW C, by_key' = [by_key EXCEPT ![s] = C],
             \A k \in DOMAIN C : "row" \in DOMAIN C[k] /\ KeyedRow(C[k].row)
      PROVE  /\ DOMAIN by_key' = Scans
             /\ \A t \in Scans : \A k \in DOMAIN by_key'[t] :
                  "row" \in DOMAIN by_key'[t][k] /\ KeyedRow(by_key'[t][k].row)
  BY <1>1, <1>2 DEF StoredInv
<1>3. CASE Store!ReadFindings(s)
  <2>1. by_key' = [by_key EXCEPT ![s] = Store!existing_findings_by_key]
    BY <1>3 DEF Store!ReadFindings
  <2> QED
    BY <1>2, <2>1, ReadKeyed
<1>4. CASE Store!Collapse(s)
  <2> PICK row : row = Store!keep_worst_severity(B[draft.key].row, draft)
    OBVIOUS
  <2>1. /\ draft.key \in DOMAIN B
        /\ by_key' = [by_key EXCEPT ![s][draft.key].row = row]
    BY <1>4 DEF Store!Collapse
  <2>2. "row" \in DOMAIN B[draft.key] /\ KeyedRow(B[draft.key].row)
    BY <1>1, <2>1
  <2>3. KeyedRow(row)
    <3> PICK sev : row = [B[draft.key].row EXCEPT !.severity = sev]
      BY DEF Store!keep_worst_severity
    <3> QED
      BY <2>2 DEF KeyedRow
  <2> PICK C : C = [B EXCEPT ![draft.key].row = row]
    OBVIOUS
  <2>4. by_key' = [by_key EXCEPT ![s] = C]
    BY <2>1
  <2>5. ASSUME NEW k \in DOMAIN C
        PROVE  "row" \in DOMAIN C[k] /\ KeyedRow(C[k].row)
    <3>1. CASE k = draft.key
      BY <2>1, <2>2, <2>3, <3>1
    <3>2. CASE k # draft.key
      BY <1>1, <3>2
    <3> QED
      BY <3>1, <3>2
  <2> QED
    BY <1>2, <2>4, <2>5
<1>5. CASE Store!Create(s)
  <2> PICK row : row = Store!from_draft(s, allocated[s] + 1)
    OBVIOUS
  <2> PICK C : C = [j \in DOMAIN B \cup {draft.key} |->
                      IF j = draft.key THEN [id |-> <<s, draft.key>>, row |-> row] ELSE B[j]]
    OBVIOUS
  <2>1. /\ by_key' = [by_key EXCEPT ![s] = C]
        /\ Store!HasDraft(s)
    BY <1>5 DEF Store!Create, StoredInv
  <2>2. KeyedRow(row)
    <3>1. Storable(draft.key)
      <4>1. Store!Draft(s) = persist_captured[s][next[s]] /\ next[s] \in DOMAIN persist_captured[s]
        <5>1. persist_captured[s] \in Seq(Store!FindingDraft) /\ next[s] \in Nat \ {0}
          BY DEF StoredInv
        <5> QED
          BY <2>1, <5>1 DEF Store!Draft, Store!HasDraft
      <4> QED
        BY <4>1 DEF StoredInv
    <3>2. "key" \in DOMAIN row /\ row.key = draft.key
      BY DEF Store!from_draft
    <3> QED
      BY <3>1, <3>2 DEF KeyedRow
  <2>3. \A k \in DOMAIN C : "row" \in DOMAIN C[k] /\ KeyedRow(C[k].row)
    BY <1>1, <2>2
  <2> QED
    BY <1>2, <2>1, <2>3
<1>6. CASE UNCHANGED by_key
  BY <1>1, <1>6 DEF StoredInv
<1>7. \/ Store!ReadFindings(s) \/ Store!Collapse(s) \/ Store!Create(s) \/ UNCHANGED by_key
  BY DEF PersistStep, SealFails, Store!Commit, Store!Retry, Store!GiveUp, Store!Abort
<1> QED
  BY <1>3, <1>4, <1>5, <1>6, <1>7

\* What a step of a scan writes into the table.
LEMMA TableStores ==
  ASSUME StoredInv, NEW s \in Scans, PersistStep(s)
  PROVE  \A i \in DOMAIN findings' : KeyedRow(findings'[i])
<1>1. CASE Store!Commit(s)
  <2>1. findings' = Store!Written(s)
    BY <1>1 DEF Store!Commit
  <2> SUFFICES ASSUME NEW i \in DOMAIN findings'
               PROVE  KeyedRow(findings'[i])
    OBVIOUS
  <2>2. i \in DOMAIN findings \/ \E k \in Store!Created(s) : i = <<s, k>>
    BY <2>1 DEF Store!Written
  <2>3. CASE i \in DOMAIN findings
    <3>1. KeyedRow(findings[i])
      BY <2>3 DEF StoredInv
    <3>2. \/ findings'[i] = findings[i]
          \/ \E sev : findings'[i] = [findings[i] EXCEPT !.severity = sev]
      BY <2>1, <2>3 DEF Store!Written
    <3> QED
      BY <3>1, <3>2 DEF KeyedRow
  <2>4. CASE i \notin DOMAIN findings
    <3>1. PICK k \in Store!Created(s) : i = <<s, k>>
      BY <2>2, <2>4
    <3>2. findings'[i] = by_key[s][k].row
      BY <2>1, <2>4, <3>1 DEF Store!Written
    <3>3. k \in DOMAIN by_key[s]
      BY DEF Store!Created
    <3> QED
      BY <3>2, <3>3 DEF StoredInv
  <2> QED
    BY <2>3, <2>4
<1>2. CASE UNCHANGED findings
  BY <1>2 DEF StoredInv
<1>3. Store!Commit(s) \/ UNCHANGED findings
  BY DEF PersistStep, SealFails, Store!ReadFindings, Store!Collapse, Store!Create, Store!Retry,
         Store!GiveUp, Store!Abort, Store!storeVars
<1> QED
  BY <1>1, <1>2, <1>3

\* Every step keeps what is stored in scope.
LEMMA StoredKeeps ==
  ASSUME CredInv, ProbeInv, StoredInv, [RunNext]_runVars
  PROVE  StoredInv'
<1>1. /\ DOMAIN by_key' = Scans
      /\ next' \in [Scans -> Nat \ {0}]
      /\ persist_captured' \in [Scans -> Seq(Store!FindingDraft)]
      /\ \A s \in Scans : \A n \in DOMAIN persist_captured'[s] : Storable(persist_captured'[s][n].key)
      /\ \A s \in Scans : \A k \in DOMAIN by_key'[s] :
           "row" \in DOMAIN by_key'[s][k] /\ KeyedRow(by_key'[s][k].row)
      /\ \A i \in DOMAIN findings' : KeyedRow(findings'[i])
  <2>1. CASE UNCHANGED <<persist_captured, by_key, next, findings>>
    BY <2>1 DEF StoredInv
  <2>2. CASE HandOver
    <3>1. UNCHANGED <<by_key, next, findings>>
      BY <2>2 DEF HandOver, Store!BeginPersist, Store!storeVars
    <3> QED
      BY <2>2, <3>1, HandOverStores DEF StoredInv
  <2>3. ASSUME NEW s \in Scans, PersistStep(s)
        PROVE  /\ DOMAIN by_key' = Scans
               /\ UNCHANGED persist_captured
               /\ next' \in [Scans -> Nat \ {0}]
               /\ \A t \in Scans : \A k \in DOMAIN by_key'[t] :
                    "row" \in DOMAIN by_key'[t][k] /\ KeyedRow(by_key'[t][k].row)
               /\ \A i \in DOMAIN findings' : KeyedRow(findings'[i])
    <3>1. UNCHANGED persist_captured
      BY <2>3 DEF PersistStep, SealFails, Store!ReadFindings, Store!Collapse, Store!Create,
                  Store!Commit, Store!Retry, Store!GiveUp, Store!Abort
    <3>2. next' = next \/ next' = [next EXCEPT ![s] = 1] \/ next' = [next EXCEPT ![s] = @ + 1]
      BY <2>3 DEF PersistStep, SealFails, Store!ReadFindings, Store!Collapse, Store!Create,
                  Store!Commit, Store!Retry, Store!GiveUp, Store!Abort
    <3>3. next' \in [Scans -> Nat \ {0}]
      <4>1. next \in [Scans -> Nat \ {0}] /\ next[s] + 1 \in Nat \ {0} /\ 1 \in Nat \ {0}
        BY <2>3 DEF StoredInv
      <4> HIDE <2>3
      <4> QED
        BY <3>2, <4>1
    <3> QED
      BY <2>3, <3>1, <3>3, SessionStores, TableStores
  <2>4. \/ UNCHANGED <<persist_captured, by_key, next, findings>>
        \/ HandOver
        \/ \E s \in Scans : PersistStep(s)
    BY DEF RunNext, runVars, storeVars, StartScan, ProbeStep, ProbeEnds, ScanDies, Restart,
           Store!Abort, Store!storeVars
  <2> QED
    BY <2>1, <2>2, <2>3, <2>4 DEF StoredInv
<1>2. \A url : Storable(url) => Storable(url)'
  BY ScopeStays
<1>3. \A row : KeyedRow(row) => KeyedRow(row)'
  BY <1>2 DEF KeyedRow
<1> QED
  BY <1>1, <1>2, <1>3 DEF StoredInv, KeyedRow

\* The invariants of the probes and of the store hold of every reachable state.
LEMMA StoredAlways == RunSpec => [](ProbeInv /\ StoredInv)
<1>1. RunInit => ProbeInv /\ StoredInv
  <2> SUFFICES ASSUME RunInit PROVE ProbeInv /\ StoredInv
    OBVIOUS
  <2>1. ProbeInv
    <3>1. Init
      BY DEF RunInit
    <3> QED
      BY <3>1, InitIndInv DEF Init, FetchInit, ProbeInv, AttributionInv
  <2>2. StoredInv
    BY DEF RunInit, Store!StoreInit, Store!ScanInit, StoredInv
  <2> QED
    BY <2>1, <2>2
<1>2. CredInv /\ ProbeInv /\ StoredInv /\ [RunNext]_runVars => ProbeInv' /\ StoredInv'
  BY ProbesKeep, StoredKeeps
<1> QED
  BY <1>1, <1>2, CredentialsSound, PTL DEF RunSpec

\* No finding is ever held against a host that is private, denied or not asked
\* for, whatever servers redirected to, whichever requests died and however
\* often the process came back (scan_engagement from the gate to the commit).
THEOREM FindingsStayInScope == RunSpec => []FindingsInScope
<1>1. ProbeInv /\ StoredInv => FindingsInScope
  <2> SUFFICES ASSUME ProbeInv, StoredInv, NEW i \in DOMAIN findings
               PROVE  Engagement /\ findings[i].key \in Urls /\ is_in_scope(policy, findings[i].key)
    BY InScopeMeans DEF FindingsInScope
  <2> QED
    BY DEF ProbeInv, IndInv, StoredInv, KeyedRow, Storable
<1> QED
  BY <1>1, StoredAlways, PTL

\* What a scan keeps of a probe is kept by the probe in the composition too: a
\* request of any scan, between any credential requests, restarts and lost
\* clients, goes to a host in scope.
THEOREM RunsStayInScope == RunSpec => []EgressInScope
<1>1. ProbeInv => EgressInScope
  BY WireInScope DEF ProbeInv
<1> QED
  BY <1>1, StoredAlways, PTL

=============================================================================
