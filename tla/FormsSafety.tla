----------------------------- MODULE FormsSafety -----------------------------
(***************************************************************************)
(* What must hold of the files of operation forms, whatever fails between  *)
(* the registry database and the blob store.                               *)
(***************************************************************************)
EXTENDS OperationForms

BlobsOf(r) == {f \in blobs : f[1] = r}
RowsOf(r)  == {f \in attachments : f[1] = r}
AllFiles(r) == {r} \X (1 .. count[r])

\* The types of the state variables.
TypeOK ==
  /\ blobs \subseteq Files /\ attachments \subseteq Files
  /\ submitted \subseteq Submissions
  /\ pc \in [Submissions -> {"idle", "ready", "storing", "linking", "recorded",
                             "compensating", "done", "dead"}]
  /\ count \in [Submissions -> 0 .. MaxFiles + 1]
  /\ linked \in [Submissions -> 0 .. MaxFiles]
  /\ storedKeys \in [Submissions -> SUBSET Files]
  /\ answer \in [Submissions -> Outcomes \cup {None}]
  /\ unconfirmed \subseteq Submissions /\ undeleted \subseteq Submissions

\* forms.ts, submitOperationForm: an operation is in the history with a row for
\* every one of its files, or not at all and with none; a client told "ok" has it,
\* and each of its files is in the store unless the commit was reported as failed.
SubmittedWhole ==
  \A r \in Submissions :
    /\ RowsOf(r) = IF r \in submitted THEN AllFiles(r) ELSE {}
    /\ answer[r] = "ok" => r \in submitted
    /\ r \in submitted \ unconfirmed => AllFiles(r) \subseteq blobs

\* forms.ts:260, "avoiding orphans": once a submission is answered, a file without
\* a row is left behind only where a delete failed.
NoOrphans ==
  \A r \in Submissions :
    pc[r] = "done" /\ r \notin undeleted => BlobsOf(r) \subseteq RowsOf(r)

\* forms.ts:260, "if the registry transaction fails": files are deleted only when
\* their rows are not there, so that a row's file can be read.
RowsHaveFiles == attachments \subseteq blobs

-----------------------------------------------------------------------------
(* The inductive invariant: what a submission has put, linked and          *)
(* remembered at each of its steps.                                        *)

FirstFiles(r, n) == {r} \X (1 .. n)

InProgress(r) ==
  /\ pc[r] \in {"storing", "linking", "recorded"} => count[r] <= MaxFiles
  /\ pc[r] \in {"storing", "linking", "recorded"} => linked[r] <= count[r]
  /\ pc[r] = "linking" => linked[r] < count[r]
  /\ pc[r] = "recorded" => linked[r] = count[r]
  /\ pc[r] \in {"idle", "ready"} => linked[r] = 0

Remembers(r) ==
  /\ InTransaction(r) \/ pc[r] = "idle" =>
       /\ storedKeys[r] = FirstFiles(r, IF pc[r] = "linking" THEN linked[r] + 1 ELSE linked[r])
       /\ BlobsOf(r) = storedKeys[r]
  /\ storedKeys[r] \subseteq {r} \X (1 .. MaxFiles)
  /\ pc[r] = "compensating" /\ r \notin undeleted => BlobsOf(r) \subseteq storedKeys[r]

Accounted(r) ==
  /\ RowsOf(r) = IF r \in submitted THEN AllFiles(r) ELSE {}
  /\ r \in submitted => pc[r] \in {"compensating", "done", "dead"}
  /\ r \in submitted /\ pc[r] = "compensating" => r \in unconfirmed
  /\ answer[r] = "ok" => r \in submitted
  /\ r \in submitted \ unconfirmed => AllFiles(r) \subseteq blobs
  /\ pc[r] = "done" /\ r \notin undeleted => BlobsOf(r) \subseteq RowsOf(r)

FormsInv == TypeOK /\ \A r \in Submissions : InProgress(r) /\ Remembers(r) /\ Accounted(r)
=============================================================================
