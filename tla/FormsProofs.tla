----------------------------- MODULE FormsProofs -----------------------------
(***************************************************************************)
(* Proofs of the safety properties of FormsSafety, for any number of       *)
(* submissions and files.  Every action but Crash is the step of one       *)
(* submission, whose files are its own, so each lemma shows what the step  *)
(* does to its submission and leaves the others to OthersKept.             *)
(***************************************************************************)
EXTENDS FormsSafety, TLAPS

RequestInv(r) == InProgress(r) /\ Remembers(r) /\ Accounted(r)

\* What a step of another submission leaves as it is.
Untouched(q) ==
  /\ pc'[q] = pc[q] /\ count'[q] = count[q] /\ linked'[q] = linked[q]
  /\ storedKeys'[q] = storedKeys[q] /\ answer'[q] = answer[q]
  /\ BlobsOf(q)' = BlobsOf(q) /\ RowsOf(q)' = RowsOf(q)
  /\ (q \in submitted') = (q \in submitted)
  /\ (q \in unconfirmed') = (q \in unconfirmed)
  /\ (q \in undeleted') = (q \in undeleted)

\* What an untouched submission's files are is decided by its blobs alone.
LEMMA FilesInBlobs ==
  ASSUME NEW r \in Submissions
  PROVE  (AllFiles(r) \subseteq blobs) <=> (AllFiles(r) \subseteq BlobsOf(r))
BY DEF AllFiles, BlobsOf

\* A submission that a step does not touch keeps its part of the invariant.
LEMMA OthersKept ==
  ASSUME NEW q \in Submissions, RequestInv(q), Untouched(q)
  PROVE  RequestInv(q)'
<1>1. (AllFiles(q) \subseteq blobs)' <=> AllFiles(q) \subseteq blobs
  BY FilesInBlobs DEF Untouched, AllFiles, BlobsOf
<1>2. InProgress(q)'
  BY DEF RequestInv, Untouched, InProgress
<1>3. Remembers(q)'
  BY DEF RequestInv, Untouched, Remembers, InTransaction, FirstFiles
<1>4. Accounted(q)'
  BY <1>1 DEF RequestInv, Untouched, Accounted, AllFiles
<1> QED BY <1>2, <1>3, <1>4 DEF RequestInv

\* A step of one submission keeps the invariant when it keeps the types and that
\* submission's part of it.
LEMMA StepInv ==
  ASSUME FormsInv, NEW r \in Submissions, TypeOK', RequestInv(r)',
         \A q \in Submissions \ {r} : Untouched(q)
  PROVE  FormsInv'
<1>1. ASSUME NEW q \in Submissions PROVE RequestInv(q)'
  <2>1. CASE q = r
    BY <2>1
  <2>2. CASE q # r
    BY <2>2, OthersKept DEF FormsInv, RequestInv
  <2> QED BY <2>1, <2>2
<1> QED BY <1>1 DEF FormsInv, RequestInv

\* The steps that touch neither database nor blob store.
LEMMA LocalStep ==
  ASSUME FormsInv, NEW r \in Submissions, UNCHANGED store,
         NEW to \in {"ready", "storing", "linking", "recorded", "compensating", "done"},
         pc' = [pc EXCEPT ![r] = to],
         \A q \in Submissions \ {r} :
           /\ count'[q] = count[q] /\ linked'[q] = linked[q]
           /\ storedKeys'[q] = storedKeys[q] /\ answer'[q] = answer[q]
           /\ (q \in unconfirmed') = (q \in unconfirmed)
           /\ (q \in undeleted') = (q \in undeleted)
  PROVE  \A q \in Submissions \ {r} : Untouched(q)
BY DEF Untouched, store, FormsInv, TypeOK, BlobsOf, RowsOf

LEMMA SubmitInv ==
  ASSUME FormsInv, NEW r \in Submissions, Submit(r)
  PROVE  FormsInv'
<1> USE DEF Submit, Goto
<1>1. PICK n \in 0 .. MaxFiles + 1 : count' = [count EXCEPT ![r] = n]
  OBVIOUS
<1>2. TypeOK'
  BY <1>1 DEF FormsInv, TypeOK, store
<1>3. \A q \in Submissions \ {r} : Untouched(q)
  BY <1>1, LocalStep DEF FormsInv, TypeOK
<1>4. pc[r] = "idle" /\ pc'[r] = "ready" /\ RequestInv(r) /\ count'[r] \in Nat
  BY <1>1, MaxFilesAssumption DEF FormsInv, TypeOK, RequestInv
<1>5. r \notin submitted /\ RowsOf(r) = {}
  BY <1>4 DEF RequestInv, Accounted
<1>6. RequestInv(r)'
  BY <1>4, <1>5 DEF RequestInv, InProgress, Remembers, Accounted, InTransaction, FirstFiles,
                    BlobsOf, RowsOf, AllFiles, store
<1> QED BY <1>2, <1>3, <1>6, StepInv

LEMMA RefuseInv ==
  ASSUME FormsInv, NEW r \in Submissions, Refuse(r)
  PROVE  FormsInv'
<1> USE DEF Refuse, Goto
<1>1. TypeOK'
  BY DEF FormsInv, TypeOK, store, Outcomes
<1>2. \A q \in Submissions \ {r} : Untouched(q)
  BY LocalStep DEF FormsInv, TypeOK
<1>3. RequestInv(r) /\ pc'[r] = "done" /\ count[r] \in Nat /\ linked[r] \in Nat
  BY MaxFilesAssumption DEF FormsInv, TypeOK, RequestInv
<1>4. RequestInv(r)'
  BY <1>3 DEF FormsInv, TypeOK, RequestInv, InProgress, Remembers, Accounted, InTransaction,
              FirstFiles, BlobsOf, RowsOf, AllFiles, AllLinked, store
<1> QED BY <1>1, <1>2, <1>4, StepInv

LEMMA AppendOperationInv ==
  ASSUME FormsInv, NEW r \in Submissions, AppendOperation(r)
  PROVE  FormsInv'
<1> USE DEF AppendOperation, Goto
<1>1. TypeOK'
  BY DEF FormsInv, TypeOK, store, Outcomes
<1>2. \A q \in Submissions \ {r} : Untouched(q)
  BY LocalStep DEF FormsInv, TypeOK
<1>3. RequestInv(r) /\ pc'[r] = "storing" /\ count[r] \in Nat /\ linked[r] \in Nat
  BY MaxFilesAssumption DEF FormsInv, TypeOK, RequestInv
<1>4. RequestInv(r)'
  BY <1>3 DEF FormsInv, TypeOK, RequestInv, InProgress, Remembers, Accounted, InTransaction,
              FirstFiles, BlobsOf, RowsOf, AllFiles, AllLinked, store
<1> QED BY <1>1, <1>2, <1>4, StepInv

LEMMA WriteTrailInv ==
  ASSUME FormsInv, NEW r \in Submissions, WriteTrail(r)
  PROVE  FormsInv'
<1> USE DEF WriteTrail, Goto
<1>1. TypeOK'
  BY DEF FormsInv, TypeOK, store, Outcomes
<1>2. \A q \in Submissions \ {r} : Untouched(q)
  BY LocalStep DEF FormsInv, TypeOK
<1>3. RequestInv(r) /\ pc'[r] = "recorded" /\ count[r] \in Nat /\ linked[r] \in Nat
  BY MaxFilesAssumption DEF FormsInv, TypeOK, RequestInv
<1>4. RequestInv(r)'
  BY <1>3 DEF FormsInv, TypeOK, RequestInv, InProgress, Remembers, Accounted, InTransaction,
              FirstFiles, BlobsOf, RowsOf, AllFiles, AllLinked, store
<1> QED BY <1>1, <1>2, <1>4, StepInv

LEMMA RethrowInv ==
  ASSUME FormsInv, NEW r \in Submissions, Rethrow(r)
  PROVE  FormsInv'
<1> USE DEF Rethrow, Goto
<1>1. TypeOK'
  BY DEF FormsInv, TypeOK, store, Outcomes
<1>2. \A q \in Submissions \ {r} : Untouched(q)
  BY LocalStep DEF FormsInv, TypeOK
<1>3. RequestInv(r) /\ pc'[r] = "done" /\ count[r] \in Nat /\ linked[r] \in Nat
  BY MaxFilesAssumption DEF FormsInv, TypeOK, RequestInv
<1>4. RequestInv(r)'
  BY <1>3 DEF FormsInv, TypeOK, RequestInv, InProgress, Remembers, Accounted, InTransaction,
              FirstFiles, BlobsOf, RowsOf, AllFiles, AllLinked, store
<1> QED BY <1>1, <1>2, <1>4, StepInv

LEMMA FailInv ==
  ASSUME FormsInv, NEW r \in Submissions, Fail(r)
  PROVE  FormsInv'
<1> USE DEF Fail
<1>1. TypeOK'
  BY DEF FormsInv, TypeOK, store
<1>2. \A q \in Submissions \ {r} : Untouched(q)
  BY LocalStep DEF FormsInv, TypeOK
<1>3. RequestInv(r) /\ pc'[r] = "compensating" /\ r \notin submitted
  BY DEF FormsInv, TypeOK, RequestInv, Accounted, InTransaction
<1>4. RequestInv(r)'
  BY <1>3 DEF RequestInv, InProgress, Remembers, Accounted, InTransaction, FirstFiles,
              BlobsOf, RowsOf, AllFiles, store
<1> QED BY <1>1, <1>2, <1>4, StepInv

LEMMA InsertAttachmentInv ==
  ASSUME FormsInv, NEW r \in Submissions, InsertAttachment(r)
  PROVE  FormsInv'
<1> USE DEF InsertAttachment, Goto
<1>1. RequestInv(r) /\ pc[r] = "linking" /\ pc'[r] = "storing" /\ r \notin submitted
  BY DEF FormsInv, TypeOK, RequestInv, Accounted
<1>2. count[r] \in Nat /\ linked[r] \in Nat /\ linked[r] < count[r] /\ count[r] <= MaxFiles
  BY <1>1, MaxFilesAssumption DEF FormsInv, TypeOK, RequestInv, InProgress
<1>3. linked'[r] = linked[r] + 1
  BY DEF FormsInv, TypeOK
<1>4. TypeOK'
  BY <1>2, MaxFilesAssumption DEF FormsInv, TypeOK, store
<1>5. \A q \in Submissions \ {r} : Untouched(q)
  BY LocalStep DEF FormsInv, TypeOK
<1>6. RequestInv(r)'
  BY <1>1, <1>2, <1>3 DEF RequestInv, InProgress, Remembers, Accounted, InTransaction,
                          FirstFiles, BlobsOf, RowsOf, AllFiles, store
<1> QED BY <1>4, <1>5, <1>6, StepInv

LEMMA PutBlobInv ==
  ASSUME FormsInv, NEW r \in Submissions, PutBlob(r)
  PROVE  FormsInv'
<1> USE DEF PutBlob, Goto
<1> DEFINE key == <<r, linked[r] + 1>>
<1>1. RequestInv(r) /\ pc[r] = "storing" /\ pc'[r] = "linking" /\ r \notin submitted
  BY DEF FormsInv, TypeOK, RequestInv, Accounted
<1>2. count[r] \in Nat /\ linked[r] \in Nat /\ linked[r] < count[r] /\ count[r] <= MaxFiles
  BY <1>1, MaxFilesAssumption DEF FormsInv, TypeOK, RequestInv, InProgress
<1>3. key \in Files /\ key \in {r} \X (1 .. MaxFiles)
  BY <1>2, MaxFilesAssumption DEF Files
<1>4. storedKeys'[r] = storedKeys[r] \cup {key}
  BY DEF FormsInv, TypeOK, Remembered
<1>5. TypeOK'
  <2>1. storedKeys' \in [Submissions -> SUBSET Files]
    BY <1>3, <1>4 DEF FormsInv, TypeOK, Remembered
  <2> QED BY <1>3, <2>1 DEF FormsInv, TypeOK
<1>6. \A q \in Submissions \ {r} : Untouched(q)
  <2>1. ASSUME NEW q \in Submissions \ {r} PROVE BlobsOf(q)' = BlobsOf(q)
    BY <2>1 DEF BlobsOf
  <2> QED BY <2>1 DEF FormsInv, TypeOK, Untouched, RowsOf
<1>7. BlobsOf(r)' = BlobsOf(r) \cup {key}
  BY DEF BlobsOf
<1>8. FirstFiles(r, linked[r] + 1) = FirstFiles(r, linked[r]) \cup {key}
  BY <1>2 DEF FirstFiles
<1>9. RequestInv(r)'
  <2>1. InProgress(r)'
    BY <1>1, <1>2 DEF RequestInv, InProgress
  <2>2. Remembers(r)'
    BY <1>1, <1>3, <1>4, <1>7, <1>8 DEF RequestInv, Remembers, InTransaction, FirstFiles
  <2>3. Accounted(r)'
    BY <1>1 DEF RequestInv, Accounted, RowsOf, AllFiles
  <2> QED BY <2>1, <2>2, <2>3 DEF RequestInv
<1> QED BY <1>5, <1>6, <1>9, StepInv

\* Deleting, or failing to delete, one of the files a submission remembers.
LEMMA DeleteInv ==
  ASSUME FormsInv, NEW r \in Submissions, DeleteBlob(r) \/ DeleteFails(r)
  PROVE  FormsInv'
<1>1. PICK f \in storedKeys[r] :
        /\ storedKeys' = [storedKeys EXCEPT ![r] = @ \ {f}]
        /\ \/ blobs' = blobs \ {f} /\ undeleted' = undeleted
           \/ blobs' = blobs /\ undeleted' = undeleted \cup {r}
  BY DEF DeleteBlob, DeleteFails, Goto, store
<1>2. /\ UNCHANGED <<submitted, attachments, count, linked, answer, unconfirmed>>
      /\ pc[r] = "compensating" /\ pc' = pc
  BY DEF DeleteBlob, DeleteFails, Goto, store, FormsInv, TypeOK
<1>3. RequestInv(r) /\ f[1] = r /\ storedKeys'[r] = storedKeys[r] \ {f}
  BY <1>1 DEF FormsInv, TypeOK, RequestInv, Remembers
<1>4. TypeOK'
  BY <1>1, <1>2 DEF FormsInv, TypeOK
<1>5. \A q \in Submissions \ {r} : Untouched(q)
  <2>1. ASSUME NEW q \in Submissions \ {r} PROVE BlobsOf(q)' = BlobsOf(q)
    BY <1>1, <1>3, <2>1 DEF BlobsOf
  <2> QED BY <1>1, <1>2, <2>1 DEF FormsInv, TypeOK, Untouched, RowsOf
<1>6. RequestInv(r)'
  <2>1. InProgress(r)'
    BY <1>2, <1>3 DEF RequestInv, InProgress
  <2>2. Remembers(r)'
    BY <1>1, <1>2, <1>3 DEF RequestInv, Remembers, InTransaction, BlobsOf
  <2>3. Accounted(r)'
    BY <1>1, <1>2, <1>3 DEF RequestInv, Accounted, RowsOf, AllFiles
  <2> QED BY <2>1, <2>2, <2>3 DEF RequestInv
<1> QED BY <1>4, <1>5, <1>6, StepInv

\* A commit installs the rows of its submissions and of no other.
LEMMA Installed ==
  ASSUME FormsInv, NEW R \in SUBSET Submissions, Install(R),
         \A q \in R : pc[q] = "recorded"
  PROVE  /\ submitted' \subseteq Submissions /\ attachments' \subseteq Files
         /\ \A q \in Submissions \ R : RowsOf(q)' = RowsOf(q)
         /\ \A q \in R : RowsOf(q)' = AllFiles(q)
<1> USE DEF Install
<1>1. submitted' \subseteq Submissions /\ attachments' \subseteq Files
  BY DEF FormsInv, TypeOK
<1>2. \A q \in Submissions \ R : RowsOf(q)' = RowsOf(q)
  BY DEF RowsOf
<1>3. ASSUME NEW q \in R PROVE RowsOf(q)' = AllFiles(q)
  <2>1. /\ RowsOf(q) = {} /\ linked[q] = count[q]
        /\ count[q] \in Nat /\ count[q] <= MaxFiles
    BY <1>3, MaxFilesAssumption DEF FormsInv, TypeOK, InProgress, Accounted
  <2>2. RowsOf(q)' = {f \in Files : f[1] = q /\ f[2] <= linked[q]}
    BY <1>3, <2>1 DEF RowsOf
  <2>3. {f \in Files : f[1] = q /\ f[2] <= linked[q]} = {q} \X (1 .. count[q])
    BY <1>3, <2>1, MaxFilesAssumption DEF Files
  <2> QED BY <2>2, <2>3 DEF AllFiles
<1> QED BY <1>1, <1>2, <1>3

\* A committed submission: whatever becomes of its process, its rows are there
\* and so are its files, until its own compensation deletes them.
LEMMA CommittedInv ==
  ASSUME FormsInv, NEW R \in SUBSET Submissions, Install(R), NEW r \in R,
         pc[r] = "recorded", \A q \in R : pc[q] = "recorded",
         pc'[r] \in {"done", "dead", "compensating"},
         count'[r] = count[r], linked'[r] = linked[r], storedKeys'[r] = storedKeys[r],
         pc'[r] = "compensating" => r \in unconfirmed'
  PROVE  RequestInv(r)'
<1>1. /\ InProgress(r) /\ Remembers(r) /\ Accounted(r)
      /\ RowsOf(r)' = AllFiles(r) /\ r \in submitted'
  BY Installed DEF FormsInv, Install
<1>2. BlobsOf(r)' = BlobsOf(r) /\ BlobsOf(r) = AllFiles(r) /\ storedKeys[r] = AllFiles(r)
  BY <1>1 DEF Install, BlobsOf, Remembers, InProgress, InTransaction, FirstFiles, AllFiles
<1>3. AllFiles(r)' = AllFiles(r) /\ AllFiles(r) \subseteq blobs'
  BY <1>2 DEF AllFiles, BlobsOf, Install
<1>4. InProgress(r)'
  BY <1>1 DEF InProgress
<1>5. Remembers(r)'
  BY <1>1, <1>2 DEF Remembers, InTransaction
<1>6. Accounted(r)'
  BY <1>1, <1>2, <1>3 DEF Accounted
<1> QED BY <1>4, <1>5, <1>6 DEF RequestInv

LEMMA CommitInv ==
  ASSUME FormsInv, NEW r \in Submissions, Commit(r) \/ CommitUnacknowledged(r)
  PROVE  FormsInv'
<1>1. /\ Install({r}) /\ pc[r] = "recorded"
      /\ \E to \in {"done", "compensating"} : pc' = [pc EXCEPT ![r] = to]
      /\ UNCHANGED <<count, linked, storedKeys, undeleted>>
      /\ unconfirmed' \in {unconfirmed, unconfirmed \cup {r}}
      /\ pc'[r] = "compensating" => r \in unconfirmed'
      /\ answer' \in {answer, [answer EXCEPT ![r] = "ok"]}
  BY DEF Commit, CommitUnacknowledged, Goto, FormsInv, TypeOK
<1>2. /\ submitted' \subseteq Submissions /\ attachments' \subseteq Files
      /\ \A q \in Submissions \ {r} : RowsOf(q)' = RowsOf(q)
  BY <1>1, Installed
<1>3. TypeOK'
  BY <1>1, <1>2 DEF FormsInv, TypeOK, Install, Outcomes
<1>4. \A q \in Submissions \ {r} : Untouched(q)
  BY <1>1, <1>2 DEF FormsInv, TypeOK, Untouched, Install, BlobsOf
<1>5. pc'[r] \in {"done", "compensating"}
  BY <1>1 DEF FormsInv, TypeOK
<1>6. RequestInv(r)'
  BY <1>1, <1>5, CommittedInv
<1> QED BY <1>3, <1>4, <1>6, StepInv

LEMMA CrashInv ==
  ASSUME FormsInv, Crash
  PROVE  FormsInv'
<1>1. PICK R \in SUBSET {q \in Submissions : pc[q] = "recorded"} :
        /\ Install(R)
        /\ pc' = [q \in Submissions |-> IF Active(q) THEN "dead" ELSE pc[q]]
        /\ UNCHANGED <<count, linked, storedKeys, answer, unconfirmed, undeleted>>
  BY DEF Crash
<1>2. /\ submitted' \subseteq Submissions /\ attachments' \subseteq Files
      /\ \A q \in Submissions \ R : RowsOf(q)' = RowsOf(q)
  BY <1>1, Installed
<1>3. TypeOK'
  BY <1>1, <1>2 DEF FormsInv, TypeOK, Install, Active
<1>4. ASSUME NEW q \in Submissions PROVE RequestInv(q)'
  <2>1. CASE q \in R
    <3>1. pc[q] = "recorded" /\ pc'[q] = "dead"
      BY <1>1, <2>1 DEF Active
    <3> QED BY <1>1, <2>1, <3>1, CommittedInv
  <2>2. CASE q \notin R
    <3>1. /\ InProgress(q) /\ Remembers(q) /\ Accounted(q)
          /\ RowsOf(q)' = RowsOf(q) /\ BlobsOf(q)' = BlobsOf(q) /\ blobs' = blobs
          /\ AllFiles(q)' = AllFiles(q)
          /\ (q \in submitted') = (q \in submitted)
          /\ pc'[q] = IF Active(q) THEN "dead" ELSE pc[q]
      BY <1>1, <1>2, <2>2 DEF FormsInv, Install, BlobsOf, AllFiles
    <3>2. InProgress(q)'
      BY <1>1, <3>1 DEF InProgress, Active
    <3>3. Remembers(q)'
      BY <1>1, <3>1 DEF Remembers, InTransaction, FirstFiles, Active
    <3>4. Accounted(q)'
      BY <1>1, <3>1 DEF Accounted, Active
    <3> QED BY <3>2, <3>3, <3>4 DEF RequestInv
  <2> QED BY <2>1, <2>2
<1> QED BY <1>3, <1>4 DEF FormsInv, RequestInv

LEMMA InitInv == Init => FormsInv
<1> SUFFICES ASSUME Init PROVE FormsInv
  OBVIOUS
<1>1. TypeOK
  BY MaxFilesAssumption DEF Init, TypeOK
<1>2. ASSUME NEW r \in Submissions PROVE InProgress(r) /\ Remembers(r) /\ Accounted(r)
  <2>1. InProgress(r) /\ Accounted(r)
    BY NoneAssumption DEF Init, InProgress, Accounted, RowsOf, BlobsOf, Outcomes
  <2>2. Remembers(r)
    BY DEF Init, Remembers, InTransaction, FirstFiles, BlobsOf
  <2> QED BY <2>1, <2>2
<1> QED BY <1>1, <1>2 DEF FormsInv

LEMMA NextInv == FormsInv /\ [Next]_vars => FormsInv'
<1> SUFFICES ASSUME FormsInv, [Next]_vars PROVE FormsInv'
  OBVIOUS
<1>1. ASSUME NEW r \in Submissions, Submit(r) \/ Refuse(r) \/ AppendOperation(r)
      PROVE  FormsInv'
  BY <1>1, SubmitInv, RefuseInv, AppendOperationInv
<1>2. ASSUME NEW r \in Submissions, PutBlob(r) \/ InsertAttachment(r) \/ WriteTrail(r)
      PROVE  FormsInv'
  BY <1>2, PutBlobInv, InsertAttachmentInv, WriteTrailInv
<1>3. ASSUME NEW r \in Submissions, Commit(r) \/ CommitUnacknowledged(r) \/ Fail(r)
      PROVE  FormsInv'
  BY <1>3, CommitInv, FailInv
<1>4. ASSUME NEW r \in Submissions, DeleteBlob(r) \/ DeleteFails(r) \/ Rethrow(r)
      PROVE  FormsInv'
  BY <1>4, DeleteInv, RethrowInv
<1>5. CASE Crash
  BY <1>5, CrashInv
<1>6. CASE UNCHANGED vars
  <2>1. TypeOK'
    BY <1>6 DEF vars, store, local, FormsInv, TypeOK
  <2>2. \A q \in Submissions : Untouched(q)
    BY <1>6 DEF vars, store, local, Untouched, BlobsOf, RowsOf
  <2> QED BY <2>1, <2>2, OthersKept DEF FormsInv, RequestInv
<1> QED BY <1>1, <1>2, <1>3, <1>4, <1>5, <1>6 DEF Next, Terminated

\* The inductive invariant: what a submission has put, linked and remembered is
\* known at each of its steps, whatever the others do and whatever fails.
THEOREM FormsInvariance == Spec => []FormsInv
<1>1. Init => FormsInv
  BY InitInv
<1>2. FormsInv /\ [Next]_vars => FormsInv'
  BY NextInv
<1> QED BY <1>1, <1>2, PTL DEF Spec

\* forms.ts, submitOperationForm: an operation, its attachment rows and its files
\* are there together or not at all, but for a commit reported as failed.
THEOREM FilesSubmittedWhole == Spec => []SubmittedWhole
<1>1. FormsInv => SubmittedWhole
  BY DEF FormsInv, SubmittedWhole, Accounted
<1> QED BY <1>1, FormsInvariance, PTL

\* forms.ts:260: an answered submission leaves no file without a row, but where a
\* delete failed.
THEOREM FilesNotOrphaned == Spec => []NoOrphans
<1>1. FormsInv => NoOrphans
  BY DEF FormsInv, NoOrphans, Accounted
<1> QED BY <1>1, FormsInvariance, PTL
=============================================================================
