----------------------------- MODULE RegistryTx -----------------------------
(***************************************************************************)
(* One registry's database as its concurrent requests see it through the   *)
(* SQL Server adapter.  Every request that writes runs one transaction of  *)
(* its own (sqlserver-adapter.ts, transaction): its writes are visible to  *)
(* itself only (the work area) until the commit installs them together; a  *)
(* SELECT outside, or of a row the transaction has not written, returns    *)
(* committed data; a row one transaction has written is locked until that  *)
(* transaction ends, and another writer of the row waits.                  *)
(***************************************************************************)
EXTENDS Integers, FiniteSets

CONSTANTS
  Requests,     \* HTTP requests; each writes at most one transaction
  CaseKeys,     \* cases.case_key (IDENTITY values: never reused)
  PendingIds,   \* pending_case_updates.pending_id
  Years,        \* the year part of a diary number, from the server's clock
  States,       \* the registry's configured states
  InitialState, \* RegistryDefinition.initialState
  Transitions,  \* state_transitions, a set of pairs
  Fields,       \* statutory fields of the registry
  Values,       \* values of a field
  None          \* SQL NULL, "no row", "no request"

ASSUME NoneAssumption ==
  None \notin Requests \cup CaseKeys \cup PendingIds \cup Years \cup States \cup Values
ASSUME LockAssumption ==
  /\ CaseKeys \cap PendingIds = {}
  /\ Years \cap (CaseKeys \cup PendingIds) = {}
ASSUME InitialStateAssumption == InitialState \in States
ASSUME TransitionsAssumption == Transitions \subseteq States \X States

-----------------------------------------------------------------------------
(* Rows. *)

Row == [year: Years, number: Nat, state: States,
        fields: [Fields -> Values \cup {None}],
        version: Nat, nextOp: Nat, published: BOOLEAN]

\* The fields of a form: any subset of the registry's, with their new values.
Payload == UNION {[F -> Values] : F \in SUBSET Fields}

PendingRow == [case: CaseKeys, set: Payload,
               status: {"pending", "approved", "rejected"}]

OperationTypes ==
  {"case_created", "note", "state_change", "case_updated", "pending_submission",
   "submission_rejected", "published", "unpublished",
   "rule_update_values", "rule_action"}

\* "by" stands for actor_id: each request has an actor of its own.
Operation == [case: CaseKeys, id: Nat, type: OperationTypes,
              from: States \cup {None}, to: States \cup {None}, by: Requests]

\* published_cases: the state and the selected fields, copied at publication.
Projection == [state: States, fields: UNION {[F -> Values \cup {None}] : F \in SUBSET Fields}]

\* audit_events.action and outbox.event_type.
EventNames ==
  {"case.create", "case.created", "operation.append", "operation.created",
   "case.transition", "case.state.changed", "case.fields.update", "case.updated",
   "case.form.stage", "case.form.staged", "case.form.approved", "case.form.rejected",
   "case.publish", "case.published", "case.unpublish", "case.unpublished",
   "rule.execute", "rule.action"}

\* audit_events and outbox: one event, correlated to its request.
Event == [by: Requests, case: CaseKeys, name: EventNames]

ASSUME NoRowAssumption == None \notin Row \cup PendingRow \cup Projection

-----------------------------------------------------------------------------

VARIABLES
  counter,      \* diary_counters.last_number
  cases,        \* cases
  operations,   \* operations
  audit,        \* audit_events
  outbox,       \* outbox
  pending,      \* pending_case_updates
  projection,   \* published_cases
  shownOps,     \* published_operations, as <<case_key, operation_id>>
  lock,         \* the transaction that has written a row not yet committed
  pc,           \* the next statement of each request
  cmd,          \* the command of each request
  seen,         \* the committed case row the request read last
  work,         \* the uncommitted writes of each request's transaction
  answer        \* what the client was told

tables  == <<counter, cases, operations, audit, outbox, pending, projection, shownOps>>
request == <<pc, cmd, seen, work, answer>>
vars    == <<tables, lock, request>>

Lockable == CaseKeys \cup PendingIds \cup Years

NoWork == [case |-> None, pid |-> None, row |-> None, ops |-> {}, audit |-> {},
           outbox |-> {}, pend |-> None, projects |-> FALSE, proj |-> None,
           shown |-> {}, fired |-> 0]

Work == [case: CaseKeys \cup {None}, pid: PendingIds \cup {None},
         row: Row \cup {None}, ops: SUBSET Operation,
         audit: SUBSET Event, outbox: SUBSET Event,
         pend: PendingRow \cup {None}, projects: BOOLEAN,
         proj: Projection \cup {None}, shown: SUBSET Nat, fired: Nat]

\* A fresh registry: migrations have run, no request has been served.
InitTables ==
  /\ counter = [y \in Years |-> 0]
  /\ cases = [c \in CaseKeys |-> None]
  /\ operations = {}
  /\ audit = {}
  /\ outbox = {}
  /\ pending = [p \in PendingIds |-> None]
  /\ projection = [c \in CaseKeys |-> None]
  /\ shownOps = {}
  /\ lock = [x \in Lockable |-> None]

-----------------------------------------------------------------------------
(* Statements. *)

Free(x) == lock[x] = None
Acquire(r, xs) == lock' = [x \in Lockable |-> IF x \in xs THEN r ELSE lock[x]]

\* The transaction's own view of its case: its write if it made one, else the
\* committed row.
CaseRow(r) == IF work[r].row = None THEN cases[work[r].case] ELSE work[r].row

OwnedOrFree(r, x) == lock[x] \in {None, r}

-----------------------------------------------------------------------------
(* The end of a transaction: sqlserver-adapter.ts, transaction. *)

Finish(r, told) ==
  /\ pc' = [pc EXCEPT ![r] = "done"]
  /\ answer' = [answer EXCEPT ![r] = told]
  /\ work' = [work EXCEPT ![r] = NoWork]
  /\ seen' = [seen EXCEPT ![r] = None]
  /\ UNCHANGED cmd

Release(r) == lock' = [x \in Lockable |-> IF lock[x] = r THEN None ELSE lock[x]]

\* transaction.rollback(): the server drops every write and lock of r.
Discard(r) == Release(r) /\ UNCHANGED tables

\* transaction.commit(): every write of r becomes visible in one step.
Install(r) ==
  LET w == work[r] IN
  /\ counter' = IF cases[w.case] = None THEN [counter EXCEPT ![w.row.year] = w.row.number]
                                        ELSE counter
  /\ cases' = [cases EXCEPT ![w.case] = w.row]
  /\ operations' = operations \cup w.ops
  /\ audit' = audit \cup w.audit
  /\ outbox' = outbox \cup w.outbox
  /\ pending' = IF w.pid = None THEN pending ELSE [pending EXCEPT ![w.pid] = w.pend]
  /\ projection' = IF w.projects THEN [projection EXCEPT ![w.case] = w.proj] ELSE projection
  /\ shownOps' = IF w.projects
                   THEN {s \in shownOps : s[1] # w.case} \cup ({w.case} \X w.shown)
                   ELSE shownOps
  /\ Release(r)
=============================================================================
