--------------------------- MODULE OperationForms ---------------------------
(***************************************************************************)
(* Submissions of an operation form with attachments (services/forms.ts,   *)
(* submitOperationForm).  The operation, the attachment rows and the trail *)
(* are written in one registry transaction; the files go to the blob       *)
(* store, which takes no part in it, so the handler deletes what it has    *)
(* put when the transaction fails.                                         *)
(*                                                                         *)
(*   idle -> ready -> storing <-> linking                                  *)
(*              storing -> recorded -> done                                *)
(*                                                                         *)
(* with "compensating" after an error and "dead" after a crash.            *)
(***************************************************************************)
EXTENDS Integers

CONSTANTS
  Submissions, \* HTTP requests that submit an operation form
  MaxFiles,    \* attachments a submission may carry
  None

ASSUME MaxFilesAssumption == MaxFiles \in Nat

\* blobKey draws a key of its own for every file: here, the file itself.
Files == Submissions \X (1 .. MaxFiles)
Outcomes == {"ok", "refused", "error"}

ASSUME NoneAssumption == None \notin Outcomes

VARIABLES
  blobs,       \* the blob store
  submitted,   \* committed operations, each with its audit and outbox records
  attachments, \* committed rows of attachments, each with its blob_key
  pc,          \* the next step of each submission
  count,       \* attachments.length
  linked,      \* attachment rows inserted by the open transaction
  storedKeys,  \* the keys to delete if the transaction fails
  answer,      \* what the client was told
  unconfirmed, \* history: commits that took effect and were reported as failed
  undeleted    \* history: submissions for which a delete failed

store == <<blobs, submitted, attachments>>
local == <<pc, count, linked, storedKeys, answer>>
vars  == <<store, local, unconfirmed, undeleted>>

Init ==
  /\ blobs = {} /\ submitted = {} /\ attachments = {}
  /\ pc = [r \in Submissions |-> "idle"]
  /\ count = [r \in Submissions |-> 0]
  /\ linked = [r \in Submissions |-> 0]
  /\ storedKeys = [r \in Submissions |-> {}]
  /\ answer = [r \in Submissions |-> None]
  /\ unconfirmed = {} /\ undeleted = {}

Active(r) == pc[r] \notin {"idle", "done", "dead"}
InTransaction(r) == pc[r] \in {"ready", "storing", "linking", "recorded"}

Goto(r, from, to) ==
  /\ pc[r] = from
  /\ pc' = [pc EXCEPT ![r] = to]
  /\ UNCHANGED <<unconfirmed, undeleted>>

-----------------------------------------------------------------------------

\* One file too many stands for a body the checks refuse; authorization and the
\* form's schema may refuse any.
Submit(r) ==
  /\ Goto(r, "idle", "ready")
  /\ \E n \in 0 .. MaxFiles + 1 : count' = [count EXCEPT ![r] = n]
  /\ UNCHANGED <<store, linked, storedKeys, answer>>

Refuse(r) ==
  /\ Goto(r, "ready", "done")
  /\ answer' = [answer EXCEPT ![r] = "refused"]
  /\ UNCHANGED <<store, count, linked, storedKeys>>

AppendOperation(r) ==
  /\ count[r] <= MaxFiles
  /\ Goto(r, "ready", "storing")
  /\ UNCHANGED <<store, count, linked, storedKeys, answer>>

\* blobs.put, then storedKeys.push, with no await between them.
RememberedLate(r) == storedKeys[r] \cup {<<r, i>> : i \in 1 .. linked[r]}
Remembered(r) == storedKeys[r] \cup {<<r, linked[r] + 1>>}

PutBlob(r) ==
  /\ linked[r] < count[r]
  /\ Goto(r, "storing", "linking")
  /\ blobs' = blobs \cup {<<r, linked[r] + 1>>}
  /\ storedKeys' = [storedKeys EXCEPT ![r] = Remembered(r)]
  /\ UNCHANGED <<submitted, attachments, count, linked, answer>>

\* INSERT INTO attachments.
InsertAttachment(r) ==
  /\ Goto(r, "linking", "storing")
  /\ linked' = [linked EXCEPT ![r] = @ + 1]
  /\ UNCHANGED <<store, count, storedKeys, answer>>

\* The loop over the attachments ends.
AllButOneLinked(r) == linked[r] + 1 >= count[r]
AllLinked(r) == linked[r] = count[r]

\* appendAudit and appendOutbox.
WriteTrail(r) ==
  /\ AllLinked(r)
  /\ Goto(r, "storing", "recorded")
  /\ UNCHANGED <<store, count, linked, storedKeys, answer>>

Install(R) ==
  /\ submitted' = submitted \cup R
  /\ attachments' = attachments \cup {f \in Files : f[1] \in R /\ f[2] <= linked[f[1]]}
  /\ UNCHANGED blobs

Commit(r) ==
  /\ Goto(r, "recorded", "done")
  /\ Install({r})
  /\ answer' = [answer EXCEPT ![r] = "ok"]
  /\ UNCHANGED <<count, linked, storedKeys>>

\* The commit takes effect, its acknowledgement is lost, and the adapter throws.
CommitUnacknowledged(r) ==
  /\ pc[r] = "recorded"
  /\ pc' = [pc EXCEPT ![r] = "compensating"]
  /\ Install({r})
  /\ unconfirmed' = unconfirmed \cup {r}
  /\ UNCHANGED <<count, linked, storedKeys, answer, undeleted>>

\* A statement, a check of an attachment or a put fails: rolled back.
Fail(r) ==
  /\ InTransaction(r)
  /\ pc' = [pc EXCEPT ![r] = "compensating"]
  /\ UNCHANGED <<store, count, linked, storedKeys, answer, unconfirmed, undeleted>>

\* blobs.delete of every stored key; the error of one that fails is dropped.
DeleteBlob(r) ==
  \E f \in storedKeys[r] :
    /\ Goto(r, "compensating", "compensating")
    /\ blobs' = blobs \ {f}
    /\ storedKeys' = [storedKeys EXCEPT ![r] = @ \ {f}]
    /\ UNCHANGED <<submitted, attachments, count, linked, answer>>

DeleteFails(r) ==
  \E f \in storedKeys[r] :
    /\ pc[r] = "compensating"
    /\ storedKeys' = [storedKeys EXCEPT ![r] = @ \ {f}]
    /\ undeleted' = undeleted \cup {r}
    /\ UNCHANGED <<store, pc, count, linked, answer, unconfirmed>>

Rethrow(r) ==
  /\ storedKeys[r] = {}
  /\ Goto(r, "compensating", "done")
  /\ answer' = [answer EXCEPT ![r] = "error"]
  /\ UNCHANGED <<store, count, linked, storedKeys>>

\* The process dies with all its requests; of those whose commit was on its way,
\* the server may have committed any.
Crash ==
  \E R \in SUBSET {r \in Submissions : pc[r] = "recorded"} :
    /\ \E r \in Submissions : Active(r)
    /\ Install(R)
    /\ pc' = [r \in Submissions |-> IF Active(r) THEN "dead" ELSE pc[r]]
    /\ UNCHANGED <<count, linked, storedKeys, answer, unconfirmed, undeleted>>

Terminated ==
  /\ \A r \in Submissions : pc[r] \in {"done", "dead"}
  /\ UNCHANGED vars

Next ==
  \/ \E r \in Submissions :
       \/ Submit(r) \/ Refuse(r) \/ AppendOperation(r)
       \/ PutBlob(r) \/ InsertAttachment(r) \/ WriteTrail(r)
       \/ Commit(r) \/ CommitUnacknowledged(r) \/ Fail(r)
       \/ DeleteBlob(r) \/ DeleteFails(r) \/ Rethrow(r)
  \/ Crash
  \/ Terminated

Spec == Init /\ [][Next]_vars
=============================================================================
