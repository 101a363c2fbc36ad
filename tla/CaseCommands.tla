---------------------------- MODULE CaseCommands ----------------------------
(***************************************************************************)
(* The commands that change a case, each as the statements its handler     *)
(* runs, interleaved with those of every other request on the registry:    *)
(* api/routes.ts (postCase, postOperation, postTransition, postPublish),   *)
(* services/forms.ts (case forms, staging, decidePending), domain/*.ts     *)
(* (createCase, changeStateTx, appendOperation, appendAudit/Outbox) and    *)
(* what services/rules.ts may do in the transaction of a transition.       *)
(*                                                                         *)
(* A handler reads what it needs (Receive), is authorised or not (Refuse), *)
(* and then runs one transaction:                                          *)
(*                                                                         *)
(*   ready -> [open] -> [checked] -> held -> [projected] -> logged         *)
(*         -> recorded -> done                                             *)
(*                                                                         *)
(* with a rollback to "done" from every one of these points.               *)
(***************************************************************************)
EXTENDS RegistryTx

CONSTANTS
  Commands,      \* the commands clients send
  MaxRuleActions \* bound: actions the rules run in one transition

Command ==
       [kind: {"create"}, year: Years, set: Payload]
  \cup [kind: {"append"}, case: CaseKeys, type: OperationTypes]
  \cup [kind: {"transition"}, case: CaseKeys, to: States]
  \cup [kind: {"update", "stage"}, case: CaseKeys, set: Payload]
  \cup [kind: {"approve", "reject"}, pid: PendingIds]
  \cup [kind: {"publish"}, case: CaseKeys, pick: SUBSET Fields, ops: SUBSET Nat]
  \cup [kind: {"unpublish"}, case: CaseKeys]

ASSUME CommandsAssumption == Commands \subseteq Command /\ None \notin Command
ASSUME NoAnswerAssumption == None \notin {"ok", "error"}
ASSUME MaxRuleActionsAssumption == MaxRuleActions \in Nat

Decisions   == {"approve", "reject"}
Publishings == {"publish", "unpublish"}

-----------------------------------------------------------------------------
(* Helpers of the handlers. *)

Kind(r) == cmd[r].kind

\* { ...row, ...fields }: UPDATE cases SET <names> = <values>.
Overlay(set, fields) == [f \in Fields |-> IF f \in DOMAIN set THEN set[f] ELSE fields[f]]

\* What applyCaseFieldsTx is given: the form's fields, or the staged payload as
\* decidePending read it before its transaction.
Submitted(r) == IF Kind(r) = "approve" THEN work[r].pend.set ELSE cmd[r].set

ChangesFields(r) == Kind(r) \in {"update", "approve"} /\ DOMAIN Submitted(r) # {}

\* The commands that SELECT the version inside the transaction.
ReadsVersion(r) == Kind(r) = "transition" \/ ChangesFields(r)

\* The transaction comes to its first statement on the case row: staging and
\* deciding have written a pending row before it.
AtEntry(r) ==
  \/ pc[r] = "open"
  \/ pc[r] = "ready" /\ Kind(r) \notin Decisions \cup {"stage"}

\* changeStateTx: SELECT 1 FROM state_transitions.
Allowed(from, to) == <<from, to>> \in Transitions

\* UPDATE cases ... WHERE case_key = ? AND version = ? (AND state = ?).
CasIgnored(r) == TRUE
CasHolds(r) ==
  LET current == cases[work[r].case] IN
  /\ current.version = seen[r].version
  /\ Kind(r) = "transition" => current.state = seen[r].state

\* SET version = version + 1.
BumpForgotten(row) == row
Bump(row) == [row EXCEPT !.version = @ + 1]

\* The row an UPDATE of the command leaves.
Updated(r) ==
  LET row == Bump(cases[work[r].case]) IN
  CASE Kind(r) = "transition" -> [row EXCEPT !.state = cmd[r].to]
    [] Kind(r) \in {"update", "approve"} ->
         [row EXCEPT !.fields = Overlay(Submitted(r), @)]
    [] OTHER -> [row EXCEPT !.published = (Kind(r) = "publish")]

\* createCase: INSERT INTO cases, with the number just allocated.
NewRow(k, n) ==
  [year |-> k.year, number |-> n, state |-> InitialState,
   fields |-> Overlay(k.set, [f \in Fields |-> None]),
   version |-> 1, nextOp |-> 1, published |-> FALSE]

\* appendOperation: the id is taken from the case row's counter, by an UPDATE
\* that locks the row.
IdReadBefore(r) == IF seen[r] = None THEN CaseRow(r).nextOp ELSE seen[r].nextOp
OperationId(r) == CaseRow(r).nextOp

LoggedType(r) ==
  CASE Kind(r) = "create"               -> "case_created"
    [] Kind(r) = "append"               -> cmd[r].type
    [] Kind(r) = "transition"           -> "state_change"
    [] Kind(r) \in {"update", "approve"} -> "case_updated"
    [] Kind(r) = "stage"                -> "pending_submission"
    [] Kind(r) = "reject"               -> "submission_rejected"
    [] Kind(r) = "publish"              -> "published"
    [] OTHER                            -> "unpublished"

LoggedOperation(r) ==
  [case |-> work[r].case, id |-> OperationId(r), type |-> LoggedType(r),
   from |-> IF Kind(r) = "transition" THEN seen[r].state ELSE None,
   to   |-> CASE Kind(r) = "transition" -> cmd[r].to
              [] Kind(r) = "create" -> InitialState
              [] OTHER -> None,
   by |-> r]

\* The actions appendAudit records, and the events appendOutbox hands over.
AuditNames ==
  [create |-> {"case.create"}, append |-> {"operation.append"},
   transition |-> {"case.transition"}, update |-> {"case.fields.update"},
   stage |-> {"case.form.stage"}, reject |-> {"case.form.rejected"},
   approve |-> {"case.fields.update", "case.form.approved"},
   publish |-> {"case.publish"}, unpublish |-> {"case.unpublish"}]

OutboxNames ==
  [create |-> {"case.created"}, append |-> {"operation.created"},
   transition |-> {"case.state.changed"}, update |-> {"case.updated"},
   stage |-> {"case.form.staged"}, reject |-> {"case.form.rejected"},
   approve |-> {"case.updated", "case.form.approved"},
   publish |-> {"case.published"}, unpublish |-> {"case.unpublished"}]

Events(r, names) == {[by |-> r, case |-> work[r].case, name |-> n] : n \in names}

\* How a transaction that ends in an error leaves the database.
AuditOutsideTransaction(r) ==
  /\ Release(r)
  /\ audit' = audit \cup work[r].audit
  /\ UNCHANGED <<counter, cases, operations, outbox, pending, projection, shownOps>>
KeepsPendingLock(r) ==
  /\ lock' = [x \in Lockable |-> IF lock[x] = r /\ x \notin PendingIds THEN None ELSE lock[x]]
  /\ UNCHANGED tables
Undo(r) == Discard(r)

Abandon(r, told) == Undo(r) /\ Finish(r, told)

-----------------------------------------------------------------------------
(* What a handler does before its transaction. *)

\* Bound: a case key, or a pending id, is left for every request that may take one.
Spare(kind, rows) ==
  Cardinality({x \in DOMAIN rows : rows[x] = None})
    > Cardinality({q \in Requests : pc[q] \notin {"idle", "done"} /\ cmd[q].kind = kind})

Accept(r, k, row, w) ==
  /\ pc[r] = "idle"
  /\ pc' = [pc EXCEPT ![r] = "ready"]
  /\ cmd' = [cmd EXCEPT ![r] = k]
  /\ seen' = [seen EXCEPT ![r] = row]
  /\ work' = [work EXCEPT ![r] = w]
  /\ UNCHANGED <<tables, lock, answer>>

\* postCase, submitCaseForm without a diary number.
ReceiveCreate(r) ==
  \E k \in Commands :
    /\ k.kind = "create" /\ Spare("create", cases)
    /\ Accept(r, k, None, NoWork)

\* getCaseByDiaryNumber: the committed row, read before the transaction.
ReceiveOnCase(r) ==
  \E k \in Commands :
    /\ k.kind \notin Decisions \cup {"create"}
    /\ cases[k.case] # None
    /\ k.kind = "stage" => Spare("stage", pending)
    /\ Accept(r, k, cases[k.case], [NoWork EXCEPT !.case = k.case])

\* decidePending: the pending row and its payload, read before the transaction.
ReceiveDecision(r) ==
  \E k \in Commands :
    /\ k.kind \in Decisions
    /\ pending[k.pid] # None
    /\ pending[k.pid].status = "pending"
    /\ Accept(r, k, cases[pending[k.pid].case],
              [NoWork EXCEPT !.case = pending[k.pid].case, !.pid = k.pid,
                             !.pend = pending[k.pid]])

\* 403 and 400 answers: authorization and validation precede the transaction.
Refuse(r) ==
  /\ pc[r] = "ready"
  /\ Finish(r, "refused")
  /\ UNCHANGED <<tables, lock>>

-----------------------------------------------------------------------------
(* The statements of the transactions. *)

Goto(r, label, w) ==
  /\ pc' = [pc EXCEPT ![r] = label]
  /\ work' = [work EXCEPT ![r] = w]
  /\ UNCHANGED <<tables, cmd, answer>>

\* createCase: allocateDiaryNumber increments the year's counter row, whose lock
\* makes the next creation of the year wait; then INSERT INTO cases and
\* case_parties.
CounterUnlocked(r) == TRUE
CounterFree(r) == Free(cmd[r].year)

AllocateNumber(r) ==
  /\ pc[r] = "ready" /\ Kind(r) = "create"
  /\ CounterFree(r)
  /\ \E c \in CaseKeys :
       /\ cases[c] = None /\ Free(c)
       /\ Acquire(r, {cmd[r].year, c})
       /\ Goto(r, "held", [work[r] EXCEPT !.case = c,
                             !.row = NewRow(cmd[r], counter[cmd[r].year] + 1)])
  /\ UNCHANGED seen

\* submitCaseForm: INSERT INTO pending_case_updates.
InsertPending(r) ==
  /\ pc[r] = "ready" /\ Kind(r) = "stage"
  /\ \E p \in PendingIds :
       /\ pending[p] = None /\ Free(p)
       /\ Acquire(r, {p})
       /\ Goto(r, "open", [work[r] EXCEPT !.pid = p,
                             !.pend = [case |-> work[r].case, set |-> cmd[r].set,
                                       status |-> "pending"]])
  /\ UNCHANGED seen

\* postPendingDecision: the word of the URL becomes the status.
RawWord(r) == Kind(r)
Verdict(r) == IF Kind(r) = "approve" THEN "approved" ELSE "rejected"

\* decidePending: UPDATE pending_case_updates ... WHERE status = 'pending'.
StatusIgnored(p) == TRUE
StillPending(p) == pending[p].status = "pending"

DecidePending(r) ==
  LET p == work[r].pid IN
  /\ pc[r] = "ready" /\ Kind(r) \in Decisions
  /\ Free(p) /\ StillPending(p)
  /\ Acquire(r, {p})
  /\ Goto(r, "open",
          [work[r] EXCEPT !.pend.status = Verdict(r)])
  /\ UNCHANGED seen

DecisionConflict(r) ==
  /\ pc[r] = "ready" /\ Kind(r) \in Decisions
  /\ Free(work[r].pid) /\ ~StillPending(work[r].pid)
  /\ Abandon(r, "conflict")

\* changeStateTx, applyCaseFieldsTx: SELECT (state,) version FROM cases.
ReadVersion(r) ==
  /\ AtEntry(r) /\ ReadsVersion(r)
  /\ seen' = [seen EXCEPT ![r] = cases[work[r].case]]
  /\ Goto(r, "checked", work[r])
  /\ UNCHANGED lock

\* changeStateTx: IllegalTransitionError.
RejectTransition(r) ==
  /\ pc[r] = "checked" /\ Kind(r) = "transition"
  /\ ~Allowed(seen[r].state, cmd[r].to)
  /\ Abandon(r, "illegal")

\* The compare-and-swap UPDATE of the case row.  A publication compares with the
\* version read before the transaction, the others with the one read in it.
ReadyToUpdate(r) ==
  /\ \/ pc[r] = "checked" /\ (Kind(r) = "transition" => Allowed(seen[r].state, cmd[r].to))
     \/ pc[r] = "ready" /\ Kind(r) \in Publishings
  /\ Free(work[r].case)

UpdateCase(r) ==
  /\ ReadyToUpdate(r) /\ CasHolds(r)
  /\ Acquire(r, {work[r].case})
  /\ Goto(r, "held", [work[r] EXCEPT !.row = Updated(r)])
  /\ UNCHANGED seen

UpdateConflict(r) ==
  /\ ReadyToUpdate(r) /\ ~CasHolds(r)
  /\ Abandon(r, "conflict")

\* postPublish: the old projection goes; a publication writes a new one, with
\* the state read before the transaction and the fields read in it, and copies
\* the selected operations, every one of which must exist.
SelectionExists(r) ==
  \A i \in cmd[r].ops : \E o \in operations : o.case = work[r].case /\ o.id = i

Project(r) ==
  /\ pc[r] = "held" /\ Kind(r) \in Publishings
  /\ Kind(r) = "publish" => SelectionExists(r)
  /\ Goto(r, "projected",
          IF Kind(r) = "publish"
            THEN [work[r] EXCEPT !.projects = TRUE, !.shown = cmd[r].ops,
                    !.proj = [state |-> seen[r].state,
                              fields |-> [f \in cmd[r].pick |-> work[r].row.fields[f]]]]
            ELSE [work[r] EXCEPT !.projects = TRUE])
  /\ UNCHANGED <<lock, seen>>

RejectSelection(r) ==
  /\ pc[r] = "held" /\ Kind(r) = "publish"
  /\ ~SelectionExists(r)
  /\ Abandon(r, "error")

\* appendOperation: UPDATE next_operation_id (which locks the case row), SELECT
\* it back, INSERT INTO operations.
ReadyToLog(r) ==
  \/ pc[r] = "held" /\ Kind(r) \notin Publishings
  \/ pc[r] = "projected"
  \/ AtEntry(r) /\ ~ReadsVersion(r) /\ Kind(r) \notin Publishings \cup {"create"}

AppendOperation(r) ==
  /\ ReadyToLog(r)
  /\ OwnedOrFree(r, work[r].case)
  /\ Acquire(r, {work[r].case})
  /\ Goto(r, "logged",
          [work[r] EXCEPT !.row = [CaseRow(r) EXCEPT !.nextOp = @ + 1],
                          !.ops = @ \cup {LoggedOperation(r)}])
  /\ UNCHANGED seen

\* appendAudit and appendOutbox, in the same transaction.
WriteTrail(r) ==
  /\ pc[r] = "logged"
  /\ Goto(r, "recorded", [work[r] EXCEPT !.audit = Events(r, AuditNames[Kind(r)]),
                                         !.outbox = Events(r, OutboxNames[Kind(r)])])
  /\ UNCHANGED <<lock, seen>>

-----------------------------------------------------------------------------
(* What the rules may do in the transaction of a transition: any sequence of
   the actions of executeAction, each with the operation and the audit event it
   writes.  RuleEngine says which sequence a given set of rules produces. *)

RulesRun(r) ==
  pc[r] = "recorded" /\ Kind(r) = "transition" /\ work[r].fired < MaxRuleActions

RuleAction(r, row, type, from, to, events) ==
  /\ Goto(r, "recorded",
          [work[r] EXCEPT
             !.row = [row EXCEPT !.nextOp = @ + 1],
             !.ops = @ \cup {[case |-> work[r].case, id |-> OperationId(r), type |-> type,
                              from |-> from, to |-> to, by |-> r]},
             !.audit = @ \cup Events(r, {"rule.execute"}),
             !.outbox = @ \cup Events(r, events),
             !.fired = @ + 1])
  /\ UNCHANGED <<lock, seen>>

\* set_state goes through changeStateTx.
RuleSetState(r) ==
  /\ RulesRun(r)
  /\ \E s \in States :
       /\ Allowed(work[r].row.state, s)
       /\ RuleAction(r, [Bump(work[r].row) EXCEPT !.state = s], "state_change",
                     work[r].row.state, s, {"case.state.changed"})

\* update_values; an empty set of fields leaves the row alone.
RuleUpdateValues(r) ==
  /\ RulesRun(r)
  /\ \E set \in Payload :
       RuleAction(r, IF DOMAIN set = {} THEN work[r].row
                     ELSE [Bump(work[r].row) EXCEPT !.fields = Overlay(set, @)],
                  "rule_update_values", None, None, {})

\* A catalog action with its outbox event, and a set_state skipped as illegal.
RuleRecord(r) ==
  /\ RulesRun(r)
  /\ \E events \in {{}, {"rule.action"}} :
       RuleAction(r, work[r].row, "rule_action", None, None, events)

-----------------------------------------------------------------------------
(* The end. *)

Commit(r) ==
  /\ pc[r] = "recorded"
  /\ Install(r)
  /\ Finish(r, "ok")

\* The commit took effect, but its acknowledgement was lost: the adapter throws.
CommitUnacknowledged(r) ==
  /\ pc[r] = "recorded"
  /\ Install(r)
  /\ Finish(r, "error")

\* A statement fails, the connection drops or the process dies: the server rolls
\* the transaction back.
Fail(r) ==
  /\ pc[r] \notin {"idle", "done"}
  /\ Abandon(r, "error")

Init ==
  /\ InitTables
  /\ pc = [r \in Requests |-> "idle"]
  /\ cmd = [r \in Requests |-> None]
  /\ seen = [r \in Requests |-> None]
  /\ work = [r \in Requests |-> NoWork]
  /\ answer = [r \in Requests |-> None]

\* The steps of an accepted request when nothing fails.
Advance(r) ==
  \/ AllocateNumber(r)
  \/ InsertPending(r)
  \/ DecidePending(r)
  \/ DecisionConflict(r)
  \/ ReadVersion(r)
  \/ RejectTransition(r)
  \/ UpdateCase(r)
  \/ UpdateConflict(r)
  \/ Project(r)
  \/ RejectSelection(r)
  \/ AppendOperation(r)
  \/ WriteTrail(r)
  \/ RuleSetState(r)
  \/ RuleUpdateValues(r)
  \/ RuleRecord(r)
  \/ Commit(r)

\* Every request the registry will be sent has been answered, or cannot be made.
Terminated ==
  /\ \A r \in Requests : pc[r] \in {"idle", "done"}
  /\ UNCHANGED vars

Next ==
  \/ \E r \in Requests :
       \/ ReceiveCreate(r)
       \/ ReceiveOnCase(r)
       \/ ReceiveDecision(r)
       \/ Refuse(r)
       \/ Advance(r)
       \/ CommitUnacknowledged(r)
       \/ Fail(r)
  \/ Terminated

Spec == Init /\ [][Next]_vars

\* The event loop resumes a handler whose statement has returned, and the
\* database grants a lock that is free.
FairSpec == Spec /\ \A r \in Requests : WF_vars(Advance(r))
=============================================================================
