# A verification project for the registry platform

The platform keeps statutory registries: cases with a diary number, a state of a
configured life cycle, typed fields and an append-only history. Citizens submit
forms, case workers move, edit and publish cases, rules act on state changes,
administrators reconfigure a registry while it runs. It is an HTTP server on Node
(`src/src/`, TypeScript) over one shared database and one database for every
registry, on SQL Server in production and on in-memory SQLite in development, and
a browser console (`src/public/app.js`) that talks to it.

This directory holds TLA+ modules translated from that source, TLC
configurations that check them on small instances, and TLAPS proofs that hold for
every instance. Paths below are relative to `src/src/` unless they name a document.

## 1. Inventory

### Components

| Component | State it keeps | Operations | Hard behaviour | What makes it correct | Status |
|---|---|---|---|---|---|
| **Case commands** (`api/routes.ts`, `services/forms.ts`, `domain/{cases,state-machine,operations,audit,diary-number}.ts`) | `cases`, `operations`, `diary_counters`, `pending_case_updates`, `published_cases`, `published_operations`, `audit_events`, `outbox` | create, append an operation, transition, update fields, stage, approve, reject, publish, unpublish, assign a handler | statements of concurrent requests interleave; reads before the transaction are stale in it; failures at every statement; a commit whose acknowledgement is lost | gapless numbers, state explained by history, all records or none, one decision per submission, a projection of one moment, serializability, every request answered | modelled (assignment in `Access`) |
| **SQL Server adapter** (`db/sqlserver-adapter.ts`, `db/dialect.ts`) | a connection pool, one transaction per invocation | `transaction`, statements | commit may fail after it took effect; rollback errors are dropped | all or nothing; requests never join each other's transaction | transactions modelled (`RegistryTx`); SQL text is not |
| **Rule engine** (`services/rules.ts`) | `rules` (shared database), nothing of its own | run the rules of a state, cascade | recursion with a bound; rules loaded outside the transaction, once per level | a rule cannot bypass the allowed transitions nor escape the trail | modelled |
| **Configuration** (`services/{config-apply,admin,config-promote}.ts`, `config/validation.ts`, `bootstrap.ts`) | the columns, `states`, `state_transitions` of a registry; `form_definitions`, `rules`, `config_versions` (shared); the definitions a process serves with (`api/platform.ts`) | edit, boot, promote; each applies an artifact | an apply is many transactions on two databases; jobs overlap in one process and in several; a crash leaves half an apply | nothing names a missing column or state; a later apply repairs; versions tell artifacts apart | modelled |
| **Operation forms and attachments** (`services/forms.ts`, `blob/blob.ts`) | `operations`, `attachments`, the blob store | submit a form with files | the blob store takes no part in the transaction; compensation | rows and files together, no orphans | modelled |
| **Exports** (`services/exports.ts`) | `export_runs`, blobs | export a registry, or all | two reads that are not one snapshot; a crash; failures of the run log | a missed or failed export is visible; what is exported explains itself | modelled (`CaseReads`) |
| **Queries** (`core/queries.ts`, `core/worker-queries.ts`, `getCase`) | none | read a case with its history, the published search, the worker's queues, a customer's cases | several statements without a transaction, over two databases, while commands commit | a history that covers the state shown; nothing shown that was not public; nothing listed that is not the reader's, nothing of theirs missing | partly: text search, limits and localized answers are left out |
| **Authorization, tokens, trust zones** (`core/authorization.ts`, `api/{authz,tokens,trust-zones}.ts`, `services/admin.ts`) | workers, customers, `worker_authorizations`, `api_tokens`, `case_parties`, `case_handlers` | judge a request; grant, mint, revoke, deactivate | grants, tokens and accounts end between the statements of a request; containment of categories is computed in two ways; bounds of grants are texts; each handler names the flag it asks for | no effect without a right, no refusal of one | modelled (`Access`) |
| **Browser console** (`public/app.js`) | `state`, `#view` | select an identity, a registry, a portal; open a case; post a command | every click starts a chain of fetches; chains overlap and read the global state after each await; one search shows the cases of all registries | the list on screen was asked for as the selection; cases are labelled by their own registry | partly: control flow only (`Console`) |
| **Migration runner** (`migrations/runner.ts`) | `schema_migrations` | migrate | two processes start together; a crash between migrations | each migration at most once, in order | partly: a fresh registry, in `ConfigApply` |
| **Payload and category validation** (`domain/json-schema.ts`, `domain/categories.ts`) | none | pure functions | paths padded to one width | one path for one category | partly: category paths, in `Access` |
| **Bootstrap, server, logging, localization** | none | wiring, HTTP, text | | | partly: boots in `ConfigApply`, dispatch in `Access` |
| **SQLite adapter** (`db/sqlite-adapter.ts`) | one connection and its depth counter | `transaction` with savepoints | handlers resumed in one turn of the event loop share the connection | one request's rollback is its own | not modelled: see 6 |

### How they interact

A request is dispatched (`api/server.ts`) to a handler, which reads what it needs
from the shared database and the registry's, authorizes, and runs one registry
transaction: a compare-and-swap of the case row, the operation, the audit and
outbox records and, for a transition, the rules. Only the database coordinates
requests: row locks, the `WHERE version = ?` of updates and the counter rows.
Administrators' edits, boots and promotions run the same `applyRegistryConfig`
beside them, and change what forms, rules and transitions the handlers see; they also
change grants, tokens and accounts, which a request reads from the shared database
before it reads or writes the registry's. Reads and exports open no transaction at
all. In the browser, the chains of fetches share one global `state` and one `#view`,
and nothing cancels a chain whose answer is no longer wanted.

The hazards of this code, each at its line and with the properties that cover it,
are the `hazards` of `PROJECT.json`.

## 2. Modules

| Module | What it is |
|---|---|
| `RegistryTx` | One registry's tables as concurrent transactions see them: uncommitted work areas, row locks, commit and rollback. |
| `CaseCommands` | The commands on a case, statement by statement, over `RegistryTx`. |
| `CaseLedger` | The abstract specification: a ledger on which each command takes effect at one moment. |
| `CaseSafety` | Invariants, liveness, the refinement mapping to `CaseLedger`, and the inductive invariants `CaseInv`, `HistoryInv`, `TrailInv`, `PublicInv` and `LedgerInv`. |
| `CaseProofs` | TLAPS proofs about `CaseCommands`: types, numbering, histories. |
| `LedgerProofs` | TLAPS proofs about `CaseCommands`, on those of `CaseProofs`: records, decisions, publications, and that it implements `CaseLedger`. |
| `MCCases` | Instances for TLC. |
| `CaseReads`, `ReadsProofs`, `MCReads` | Reads and exports beside the commands, composed with `CaseCommands`, their properties and the inductive invariant `ReadInv`; proofs; an instance. |
| `Access`, `AccessProofs`, `MCAccess` | Who may do what, as the tables it is decided on change, with its properties and the inductive invariant `AccessInv`; proofs; an instance. |
| `Console`, `MCConsole` | The browser console with its properties and the inductive invariant `ConsoleInv`; an instance. |
| `ConsoleProofs` | TLAPS proofs about `Console`. |
| `ConfigApply` | The jobs that apply a configuration, transaction by transaction. |
| `ConfigSafety`, `ConfigProofs`, `MCConfig` | Their properties and the inductive invariants `ConfigInv` and `EffectInv`; proofs; instances. |
| `RuleEngine` | The cascade of rules in the transaction of a transition. |
| `RuleSafety`, `MCRules` | Its properties, the inductive invariant `RuleInv` and its mapping to the rule actions of `CaseCommands`; an instance. |
| `RuleProofs` | TLAPS proofs about `RuleEngine`, and that it implements the rule actions of `CaseCommands`. |
| `OperationForms` | Submissions with files: registry transaction, blob store, compensation. |
| `FormsSafety`, `FormsProofs`, `MCForms` | Their properties and the inductive invariant `FormsInv`; proofs; an instance. |

### RegistryTx and CaseCommands

A request `r` is at `pc[r]`, carries its command `cmd[r]`, the case row it read
last `seen[r]`, and the uncommitted writes of its transaction `work[r]`; the tables
are variables of their own.

    idle -> ready -> [open] -> [checked] -> held -> [projected] -> logged
         -> recorded -> done

- `ReceiveCreate`, `ReceiveOnCase`, `ReceiveDecision`: what a handler reads before
  its transaction. `ReceiveOnCase` keeps the row `getCaseByDiaryNumber` returned,
  `ReceiveDecision` the pending row with its payload (`decidePending`).
- `Refuse`: the 403 and 400 answers.
- `AllocateNumber`: `allocateDiaryNumber` and the inserts of `createCase`.
- `InsertPending`, `DecidePending`, `DecisionConflict`: staging, and the
  `UPDATE ... WHERE status = 'pending'` of a decision.
- `ReadVersion`, `RejectTransition`, `UpdateCase`, `UpdateConflict`: the SELECT and
  the compare-and-swap UPDATE of `changeStateTx`, `applyCaseFieldsTx` and
  `postPublish`. A publication compares with the version read *before* its
  transaction; the others with the one read in it.
- `Project`, `RejectSelection`: the projection of `postPublish`, with the state read
  before the transaction.
- `AppendOperation`, `WriteTrail`: `appendOperation`; `appendAudit` and
  `appendOutbox`.
- `RuleSetState`, `RuleUpdateValues`, `RuleRecord`: whatever a rule may do in the
  transaction of a transition, at most `MaxRuleActions` times, in any order.
- `Commit`, `CommitUnacknowledged`, `Fail`: the end of `SqlServerAdapter.transaction`.

The database is SQL Server's: a SELECT returns committed data, or the
transaction's own write; a written row stays locked to the end of the transaction
and another writer waits. Under READ COMMITTED with locks a reader may wait longer
than here, which removes behaviours and adds none. `Fail` at any point covers a
failed statement, a lost connection, the death of the process and the choice of
the transaction as a deadlock victim. Statements that no other request can
observe between are one step (the audit and outbox inserts are one).

Each request has an actor of its own, `by`, so that its traces can be told apart.

### CaseLedger

The ledger knows neither requests nor versions read earlier nor transactions.
`ImplementsLedger` maps `counter`, `cases` with `projection`, and `pending` to it;
the step that takes effect is the commit. That the projection shows state and
fields of the same moment (`Show`), that an approval applies the submission
exactly as it was staged and once (`Approve`), and that a transition starts from
the state the case is in *now* (`Move`) are all in this one refinement.

### CaseReads

`CaseReads` extends `CaseSafety`: its next-state relation is a command's step or a
statement of a reader. `Statements` has, for each kind of request, the order of its
statements: the case and its history of `getCase` with the authorization between
them, the projection for the public and for a published-only token, the search
that reads pages and then operations, and the five of `exportRegistry`. A reader
keeps what each has returned in `got`; an export visits the registries in turn, of
which `Home` is the one whose tables are modelled (`at`, `runs`, `files`, `results`).
`ExportFails` is the catch block, `Stop` an error outside of it or the end of the
process. `public` is a history variable: what has been public since the reader began,
so that a read may be as late as its statements are.

### Access

A request is at `pc[q]` in

    new -> look -> [authorise] -> act -> [insert] -> done
           look -> list -> done

`Dispatch` resolves the principal and applies the trust zone of the process;
`Look` and `TurnAway` are a handler's checks before it authorizes (the kind of
principal, the category, the case); `Authorise` asks the tables as they are
then; `Commit`, `RollBack` and `GiveCase` end it. `LoadGrants` and `ListCases` are the
two statements of a worker's queue, `FindHandler` and `InsertHandler` those of
`insertIfAbsent` under `postAssign`. Between any two of them an administrator may
grant, mint, revoke or deactivate, and the clock may tick past a bound of a grant.
A category is the sequence of its segments with the width each is written in, so that
`normalizePath` has something to do: `105` and `0105` are one path, `1050` is another.
A bound of a grant is a text. `grantAuthorization` reads both with `Date.parse`, refuses
what cannot be read and an end before the beginning, and stores the texts as they came;
the queries compare them, as texts, with the ISO timestamp of the present. So a bound is
a pair: the moment it `means` and where it `sorts` among the ISO timestamps, moment `t`
being at `TextOf(t) = 2t` with room for one other text between. Of an ISO timestamp in
UTC the two agree; "Jan 1 2026" means a moment and sorts after all timestamps; a
timestamp with an offset sorts by its local digits.

What a client has a right to is stated apart from the program's checks (`Entitled`), level by
level and for all paths alike, and so is whether its credential is good (`Trusted`): two
statements ask the two. The flag a worker's grant must have is taken from the
documentation (`Documented`), not from the handlers (`Permission`): `write` to create,
open, change, publish or be assigned a case, `transition`, `approve`, and `read` or, for a
queue, `read` and its own flag. The stories say of some commands no more than that the
case is "authorized"; what changes it is then taken to need `write`. In three places the
program is known to differ from the documentation, and `Entitled` says what the program
does, so that everything else about those requests is still checked:

- a bound that is not an ISO timestamp is in force as a text (`Held`; difference 5);
- publication and withdrawal need `transition` (`Needed`; difference 6);
- a worker opens a case by a form without any grant (`Entitled`; difference 7).

The promised reading stands beside each (`Meant`, `Documented`, `Granted`); section 5 says how
to put it in its place and what TLC then finds. `trusted`, `may` and `must` are history
variables: that the credential was good at some moment of the request, what the client had
a right to at some moment, and what was both all along.

### Console

`chains[i]` is the fetch that the chain of the i-th click waits for, with the URL and
the bearer that `api()` read when the call was made; `view` is what `#view` holds and
the chain that cleared it last, since a card made by an earlier chain is detached and
its late list is seen by nobody (`StillShown`). Rows and cards are represented by
where they come from: registry, identity and metadata key. A click is an action; so is
the answer of each kind of call, and what it does runs to the next await (`Render`,
`ShowPortal`, `Detail`). Any call may fail (`Lost`). The server is external.

The publishing portal has a select for the scope of its search, which `renderPublishing`
reads from the page it is about to replace (`ScopesOf`); `render()` has emptied the page
by then, so that a switch goes back to the selected registry. `view.scope` is what the
portal was drawn with, and `list.from` the registries whose cases may be among the rows:
one, or all. The rows of the search over all registries are all labelled by the selected
registry's metadata (`Listed`), which is difference 8; `LabelledByOwnRegistry` leaves this one
list out and says of every other that its labels are its own. A row of that list that
is another registry's selects that registry before its case is opened (`OpenElsewhere`).

### RuleEngine

`stack` holds the open calls of `runRulesForStateChangeTx`, the transition's first;
each has the rules it loaded and has still to take (`todo`). `LoadRules` is the SELECT of
a level from the shared database, outside the transaction, and `Reconfigure` the
administrator who replaces the rules meanwhile: a level keeps those it has loaded, a
deeper one sees the new. A rule that fails its condition is passed over
(`SkipRule`); `SetState` opens a level, and its rule is audited when that level
returns (`Return`); the other actions (`UpdateValues`, `CreateOperation`,
`CatalogAction`, `SkipIllegal`) are over, and audited, at once. A field that a rule may not write
(`NotWritable`), a cascade past `MAX_CASCADE` (`CascadeLimit`) and a failed
statement (`Fail`) roll everything back. `writable` is any set of fields, since the
process may serve with a definition older than the rules. The conditions are an
operator of the instance, `Holds`; `MCRules` has `all`, `any`, `equals` and
`notEquals`, with booleans stored as 0 and 1.

`CaseCommands` lets the rules of a transition do anything a rule can do;
`RulesActAsInCommands` shows that the engine does nothing else, by mapping the
engine's row, log and records to the work area of one request that has written its
transition.

### ConfigApply

A job is at `pc[j]` in

    idle -> spine -> [creating] -> columns -> adding -> forms -> record
         -> [register] -> done

`StartEdit` is `mutateRegistryConfig` (it needs the registry to be registered in
its process, reads the latest stored artifact and computes the next),
`StartBoot` the start of a process, `StartPromotion` `promoteRegistry` with an
artifact of another environment. `CheckSpine` and `CreateSpine` are the migration
runner on a fresh registry, `FindMissing` and `AddColumn`
`addMissingFieldColumns`, `SaveStates` and `SaveForms` the transactions of steps 4
and 5, `RecordVersion` step 6 and `Register` `platform.registerRegistry`. `Fail`
may stop a job at any step, and `Crash` ends a process with its jobs and its
definitions. An artifact is abstracted to what refers to what: fields, states,
transitions, forms with their field subset, rules with the fields they set and the
states they name; the fields that conditions of rules read are left out, and
`CreateSpine` is all migrations of a fresh registry at once. Each of the transactions of steps 4 and 5 is one step: two that
overlap are taken in one order or the other.

### OperationForms

A submission puts its files into the blob store (`PutBlob`) and their rows into
the open transaction (`InsertAttachment`) in turn; after any error it deletes
what it remembers having put (`DeleteBlob`, `DeleteFails`) and passes the error on
(`Rethrow`). `blobs.put` and `storedKeys.push` run without an await between them and are
one step. Deletes may fail, and the process may die at any point (`Crash`). Two
history variables, `unconfirmed` and `undeleted`, remember lost acknowledgements
and failed deletes, so that the properties can say what they excuse.

## 3. Runs

| Run | Instance | Checks | Shows |
|---|---|---|---|
| `commands` | 4 requests, 1 case, 1 submission, 3 states, 2 values, 1 rule action | `TypeOK`, `OperationIdsGapless`, `HistoryExplainsState`, `AnswerMatchesTraces`, `DecidedOnce`, `ProjectionConsistent`, `CaseInv`, `HistoryInv`, `TrailInv`, `PublicInv`, `LedgerInv`, `ImplementsLedger` | any four of the commands at the same time, failing anywhere: ids are gapless, the history explains the state, an answer agrees with the records, one decision wins and is applied as staged, the projection shows one moment, the commands are serializable |
| `intake` | 4 requests, 2 cases, 2 years, 1 submission | `DiaryNumbersGapless`, `EveryRequestAnswered` | creations and rollbacks around the turn of a year; no request waits for ever |
| `rules` | 3 states, 7 rules in tables of up to 3, 1 reconfiguration, `MAX_CASCADE` 2 | `TypeOK`, `EveryActionAudited`, `StatesFollowTransitions`, `CascadeComplete`, `WorkBounded`, `RuleInv`, `RulesActAsInCommands` | cascades, loops and rules replaced between levels: all actions are recorded or none is, states follow the transitions, the work is bounded |
| `reads` | 3 requests and 1 reader, 2 registries, 1 case | `HistoryCoversState`, `OnlyPublishedShown`, `ExportExplainsCases`, `ExportLogTruthful`, `ReadInv` | a read of any kind, or an export, between the statements of three commands: what is shown is explained by its history and was public; the export log does not claim what is not there |
| `access` | 1 worker, 1 customer, 1 token, 3 categories, 3 cases, 2 registries, 2 requests, 2 acts | `OnlyEntitled`, `NothingWithheld`, `ZonesContain`, `AssignmentsRecorded`, `AccessInv` | every route and trust zone while grants, tokens, accounts and the clock change: no effect without a right, no refusal of one, one row for racing assignments |
| `console` | 2 registries, 2 identities, 4 portals, 3 clicks | `ListIsSelected`, `LabelledByOwnRegistry`, `ConsoleInv`, `EventuallyShown` | answers in any order, any of them lost: the list on screen was asked for as the selection, rows of one registry and cards have labels of their own, and the list comes in the end |
| `quick_switch` | as `console` | `MetaOfItsRegistry` **violated** | finding 4 |
| `configuration` | 4 jobs, 2 processes, 2 fields, 2 states, versions to 4 | `ConfigurationGrounded`, `ApplyTakesEffect`, `EffectInv` | any overlap, failure and crash of edits, boots and promotions |
| `concurrent_edits` | 3 jobs, 1 process | `EachEditBumps` **violated** | finding 1 |
| `promotion` | 4 jobs, 1 process, 1 foreign artifact | `ExportIsLatestApplied` **violated** | finding 2 |
| `attachments` | 3 submissions, up to 2 files each | `SubmittedWhole`, `NoOrphans` | every statement, delete and process may fail |
| `lost_commit` | 2 submissions, up to 2 files each | `RowsHaveFiles` **violated** | finding 3 |

Every property of a passing run has a mutant: a plausible mistake in the code (a
compare-and-swap without its `WHERE version = ?`, an id read before the lock, an
audit record outside the transaction, states replaced instead of kept, a key
remembered too late, ...) that TLC finds with the run's own instance.

**Bounds.** A case row is contended by all requests of an instance, so that what
matters is the number of requests between which a stale read can go wrong: one to
create, one to change, one to read early and act late, and one more to disturb.
One case is enough where the property is about
one case, as requests on different cases share only the year's counter, which
`intake` has two cases and two years for. `Spare` (a key is left for each request that may
insert) keeps the finite set of keys from blocking an insert, as identity columns
never do. `MaxRuleActions` is 1: a rule action is a further write of the
transaction that already holds the row. `ConfigApply` has four jobs: boot, two that
overlap, and one that repairs; two processes, since a boot beside an edit needs
them. `MaxVersion` only stops jobs whose artifact would exceed it. `MAX_CASCADE` is 2 where the
code has 5: a rule that sets itself off, and a pair that sets each other off, pass either,
and a rule between two that cascade runs on a state it was not loaded for; `WorkBounded` counts in the constant. `reads` has one reader,
since readers do not see each other, and two registries, so that an export can fail at
one and go on to the next. `access` has the three categories that matter to
containment (one, one below it, and one that only looks so), two requests because
assignments race in pairs, and `MaxActs` 2: a grant and its end. Its grants have ISO bounds, none, an end written in
words, one that cannot be read, and an end before the beginning. `console` has three clicks: one
list on its way, one that replaces it, and one that comes between. It is also what
it takes to select the portal, to search everywhere and to open a row of another registry. The form
runs have two files, so that one may be stored when the next fails, and one
more than the limit is refused.

**Symmetry** (of requests, jobs or submissions) is used only in runs without
liveness; `intake` and `console` have none. `ImplementsLedger` is a safety property.

**Fairness.** `FairSpec` has `WF_vars(Advance(r))` for each request: the event
loop resumes a handler whose statement has returned, and SQL Server grants a lock
that is free. Weak fairness is enough, and so no promise of a fair lock queue is made: a
finite instance has finitely many requests that can take the lock first. Failures,
refusals and the arrival of requests are not fair. `FairConsoleSpec` has weak fairness
of `Settle(i)` for each chain: a fetch resolves or rejects in the end, and the event
loop then resumes its handler; which of the two it is, is not promised, nor that the
user clicks.

**Stopping.** `Terminated` lets a finite instance end when nobody has anything left
to do; deadlock is checked in every run, so that requests waiting on each other
would be found.

## 4. Proofs

All for every number of requests, cases, years, states, fields, values, rule
actions and rules, cascade depths, jobs, processes, submissions, files, clicks, readers,
registries, clients, categories and grants, from the `ASSUME`s of the modules
only: the sets of keys are disjoint, `None` is no row, key, job, configuration or
answer, no text and no number, the initial state and the transitions are made of states, commands are
of type `Command`, the seed and what administrators ask for are of their types, a
registry is exported once in a run, the display codes are sequences of numbers, a
request for a case names the registry of the case, a condition is true or false of a row,
and one of the rule tables that a transition may meet is the longest: without that there
is no bound on the work to speak of.

| Theorem | States |
|---|---|
| `CaseProofs!Invariance` | `Spec => []CaseInv` |
| `CaseProofs!TypeCorrect` | `Spec => []TypeOK` |
| `CaseProofs!HistoryGapless` | `Spec => []OperationIdsGapless` |
| `CaseProofs!DiaryGapless` | `Spec => []DiaryNumbersGapless` |
| `CaseProofs!HistoryInvariance` | `Spec => []HistoryInv` |
| `CaseProofs!HistoryExplains` | `Spec => []HistoryExplainsState` |
| `LedgerProofs!TrailInvariance` | `Spec => []TrailInv` |
| `LedgerProofs!AnswersMatch` | `Spec => []AnswerMatchesTraces` |
| `LedgerProofs!DecidesOnce` | `Spec => []DecidedOnce` |
| `LedgerProofs!PublicInvariance` | `Spec => []PublicInv` |
| `LedgerProofs!ProjectionsConsistent` | `Spec => []ProjectionConsistent` |
| `LedgerProofs!LedgerInvariance` | `Spec => []LedgerInv` |
| `LedgerProofs!LedgerImplemented` | `Spec => ImplementsLedger` |
| `ReadsProofs!ReadInvariance` | `ReadSpec => []ReadInv` |
| `ReadsProofs!HistoryCovers` | `ReadSpec => []HistoryCoversState` |
| `ReadsProofs!PublicOnly` | `ReadSpec => []OnlyPublishedShown` |
| `ReadsProofs!ExportsExplain` | `ReadSpec => []ExportExplainsCases` |
| `ReadsProofs!ExportsLogged` | `ReadSpec => []ExportLogTruthful` |
| `AccessProofs!AccessInvariance` | `AccessSpec => []AccessInv` |
| `AccessProofs!EntitledOnly` | `AccessSpec => []OnlyEntitled` |
| `AccessProofs!WithheldNothing` | `AccessSpec => []NothingWithheld` |
| `AccessProofs!ZonesKept` | `AccessSpec => []ZonesContain` |
| `AccessProofs!AssignmentsAudited` | `AccessSpec => []AssignmentsRecorded` |
| `ConfigProofs!ConfigInvariance` | `Spec => []ConfigInv` |
| `ConfigProofs!ConfigurationStaysGrounded` | `Spec => []ConfigurationGrounded` |
| `ConfigProofs!EffectInvariance` | `Spec => []EffectInv` |
| `ConfigProofs!ApplyRepairs` | `Spec => []ApplyTakesEffect` |
| `FormsProofs!FormsInvariance` | `Spec => []FormsInv` |
| `FormsProofs!FilesSubmittedWhole` | `Spec => []SubmittedWhole` |
| `FormsProofs!FilesNotOrphaned` | `Spec => []NoOrphans` |
| `RuleProofs!RuleInvariance` | `Spec => []RuleInv` |
| `RuleProofs!RulesTypeCorrect` | `Spec => []TypeOK` |
| `RuleProofs!WorkStaysBounded` | `Spec => []WorkBounded` |
| `RuleProofs!ActionsAudited` | `Spec => []EveryActionAudited` |
| `RuleProofs!StatesChained` | `Spec => []StatesFollowTransitions` |
| `RuleProofs!CascadesComplete` | `Spec => []CascadeComplete` |
| `RuleProofs!RulesRefineCommands` | `Spec => RulesActAsInCommands` |
| `ConsoleProofs!ConsoleInvariance` | `ConsoleSpec => []ConsoleInv` |
| `ConsoleProofs!ListSelected` | `ConsoleSpec => []ListIsSelected` |
| `ConsoleProofs!LabelsOwn` | `ConsoleSpec => []LabelledByOwnRegistry` |

- **Cases.** That ids are gapless is not inductive: the ids are taken from an
  uncommitted row and become visible at the commit only. `CaseInv` adds what makes
  it so. A request that has written a row holds its lock (`HoldsLocks`), so that
  its uncommitted row continues the committed one to the end (`OnCase`), and its
  uncommitted operations continue the committed history (`ContinuesHistory`,
  `Numbers`); a creation holds its year's counter, so its number is still the next
  (`CountersMatch`). One lemma per action shows that the invariant of the acting
  request, and of every other, survives; most of the work is in the commit
  (`CommitHistory`, `CommitCounters`, `CommitOthers`).
- **History.** The chain of transitions is stated of committed rows; `HistoryInv` extends
  `CaseInv` by the rows that are not. From the first operation on, the committed
  operations together with the transaction's own explain its row (`ExplainsItsRow`);
  between the UPDATE of the row and that operation, the row says what the operation
  will (`AboutToExplain`). The committed half stands still meanwhile because the case's
  lock is held, and a new operation is the latest because ids are gapless: both are
  `CaseInv`. The rules' actions extend the chain like the command's own.
- **Records and decisions.** `TrailInv` adds that who is not answered has left nothing
  and carries what the answer will promise (`HoldsBack`), that a decision's submission
  is still waiting from its UPDATE to its commit (`AboutToDecide`), and that what was
  decided exists (`DecisionsKnown`). With the lock of the submission, the commit of one
  decision is then the only one.
- **Publications.** `publish` reads the case and its operations before its transaction,
  and projects what it read. `PublicInv` says why that is the present all the same: a
  version of a case stands for one state (`VersionTells` for what was read, `Advances`
  for a row that is not committed yet), so that the compare-and-swap on the version
  makes the state that was read the current one, and the row's lock keeps it so until
  the commit. `AboutToPublish` says that nothing else changes whether a case is
  published. A publication is known by the request that made it, as a note may have any
  type, that of a publication included.
- **The ledger.** `LedgerImplemented` shows that the initial tables are an empty ledger,
  that each commit is the ledger's step for its command, and that every other step leaves
  the ledger alone, since uncommitted work is in nobody's table. For the commits,
  `LedgerInv` says that what a transaction has written is what its command makes of the
  ledger as it is *now*: the row of an update or a publication is the present row with the
  change made (`RowIsIntended`), a transition with its rules goes from the present state
  by allowed steps (`RowMovesOn`), a projection shows the fields of the present row
  (`PageIsIntended`), and the staged payload is the one on record (`SubmissionIsIntended`).
  It was read earlier; the compare-and-swap and the row's lock make it the present
  (`HistoryInv`, `PublicInv`). `NoEntryAssumption` tells a case that is not there from one
  that is.
- **Reads.** `CaseReads` does nothing to the commands' tables (`ReadsOnly`: `ReadSpec => Spec`),
  so all that is proved of them holds beside any readers. A history only grows, and its
  ids are gapless, so that nothing can be slipped in before what a reader has seen: a row
  in hand is explained by the operations up to its own number for ever
  (`RowsExplained`). A history that is read later than its case covers it
  (`HistoryInHand`), and so does an export that reads cases before operations
  (`Complete`). What is in hand of a public read was public at some moment since the
  reader began (`WasPublic`). The log is truthful because a run is opened before and
  closed after what it claims (`RunsRecorded`, `ResultsRecorded`).
- **Access.** Every statement judges by the tables of its own moment. `AccessInv` says
  what a request may rely on by how far it has come: its zone and credential were good
  (`Admitted`), its kind is one its path serves (`OnPath`), an authorized case was its
  client's by right (`Authorised`), the grants in hand are exactly what the worker has a
  right to by them (`GrantsSaw`), and what a token was shown of a case decides whether it
  may have it (`TokenSaw`). The two implementations of containment agree for all codes
  (`SameContainment`), and for any texts as bounds the queries find the rows that `Held` says
  are in force: of ISO timestamps, the order of the texts is that of the moments
  (`HeldAsRead`). The theorems hold with the three exceptions of section 2. An action of
  another request, or of an administrator, only adds to `may` and only takes from `must`
  (`Bystander`). Attempting the proof showed that the
  property had said too much: that credential and right are good at *one* moment is not
  so, as the account may be closed when the grant is given, between two statements. It
  now says that each was at some moment of the request.
- **Configuration.** `ConfigurationGrounded` speaks of the tables only; `ConfigInv`
  adds what a job has secured at each of its steps (`Secured`): columns before states,
  states before forms and rules. The order of the steps, that columns and states
  are never removed, and that what is stored was validated, is all it takes, whatever
  overlaps. `ApplyTakesEffect` needs `EffectInv`: a job that has not been overlapped has
  brought the databases as far as its step says (`Far`), nobody else is under way, and no
  stored artifact has a higher version, because the version it was computed from was the
  latest when it began and is stored under its own number (`StoredNumbered`).
- **Files.** `FormsInv` ties the files of a submission to the step it is at
  (`Remembers`): in the transaction, exactly the first `linked` files, and one
  more between a put and its row, are in the store and remembered.

- **Rules.** That a committed transition has all its audit records is not inductive,
  because a rule that changes the state is audited only when the level it opened
  returns, any number of levels later. `CascadeInv` says where what is missing is: on the
  stack. An operation is audited or is the cause of an open level (`AuditOwed`); a
  change of state has had its rules loaded or is the cause of a level that has not
  (`RulesOwed`); a commit leaves nothing open (`NothingOpen`). `LatestExists` lets a
  change name the one before it.
- **The work of the rules.** A level loads at most `n` rules and each is an operation that may
  open a level one deeper, so that the bound is `Work[d] = n * (1 + Work[d - 1])`. The log
  does not say which level an operation belongs to; the causes of the levels do:
  those between the cause of one level and that of the next are its own, and
  those of the levels that have returned to it. `WorkInv` bounds them by the rules the level has
  taken so far (`LoggedBy`, `TakenBy`). A return gives the level below what the one above
  had at most, since a level that is done has taken all its rules; a table that replaces
  another only widens the bounds. The bound of the whole log is then an induction on the
  levels of the stack, from the top one down. `RuleInv` is `TypeOK`, `CascadeInv` and `WorkInv`.
- **Induction.** The library's induction theorems take an operator as a parameter. Its
  theorem that a nonempty subset of a well-founded set has a minimal element does not, so
  `RuleProofs` takes induction, and that a recursive function satisfies its equation,
  from that (`Least`, `Induction`, `Recursion`). This is why `Matching` and `WorkLimit` are recursive
  functions.
- **Rules in commands.** The mapped state of `CaseCommands` is a function of the row,
  the log, the state of the first level and the outcome. Loading, skipping and
  returning change none of them (`Unseen`, `FirstState`); an operation of a rule
  appends one operation with the next id, one event and, if it writes the row, one
  version (`Recorded`, `UpdatesGrow`). That `CaseCommands` has room for one more rule
  action is `WorkBounded` of the next state (`RoomForIt`), which is why it is proved first.
- **Console.** `ListIsSelected` speaks of the list that is shown; what makes it hold
  is that the list the view still *waits for* was asked for as the selection still is
  (`AwaitsSelected`), unless a change of the selection is under way or has failed, and
  that a list whose view was cleared by another chain has no place to go. Labels are
  right because a call carries the key it was made with (`KeysOfCalls`). `LabelsOwn` says
  nothing of the rows of a search over all registries.

The inductive invariants were checked by TLC before they were proved.

**Only model-checked**: `EveryRequestAnswered` and `EventuallyShown`: liveness under
fairness, and ENABLED, are out of the prover's reach. Every safety property of a passing
run is proved; what findings 1 to 4 say is shown by their counterexamples.

## 5. Findings

1. **Two edits, one version** (`concurrent_edits`). `mutateRegistryConfig`
   (`services/admin.ts:40-56`) computes the next version from the artifact it read
   before the awaits of the apply; `config_versions` is upserted by version. Two
   overlapping edits are both answered with the same version and the stored artifact
   of one is overwritten: its field or form is live until the next edit or
   restart undoes it. `TESTING.md:65`: "each edit bumps the config version".
2. **The latest is not the last** (`promotion`). `exportRegistryConfig`
   (`services/config-promote.ts:30`) takes the highest version. An artifact promoted
   with a lower version than the target's newest is in force until the next edit or
   restart, which start from the other one. `config-promote.ts:26`: "Read the latest
   applied config artifact".
3. **Files deleted after a commit** (`lost_commit`). `submitOperationForm`
   (`services/forms.ts:259-265`) takes every error for a rollback, also the loss of
   the commit's acknowledgement, and deletes files whose rows are committed.
   `forms.ts:260-261`: "Compensate any successful puts if the registry transaction
   fails, avoiding orphans".
4. **One registry's metadata under another's name** (`quick_switch`). `refreshMeta`
   (`public/app.js:98`) stores the answer under the registry that is selected when it
   comes. A user who switches on before the metadata of the first registry has come
   leaves it stored under the second if it comes last, and the cases of the second are
   then shown with the fields of the first. `app.js:40`: "registryId -> meta";
   `docs/USER_STORIES.md:34`: switching registries "cannot retain a case, form, or
   cached field definition from the previous registry".
Four more differences have no run of their own: the models take them over, at one
definition each, so that the properties hold of the program with these exceptions. With
the promised reading in place of the definition, the passing run of the module fails.

5. **Grants that do not end, or do not begin.** `grantAuthorization`
   (`services/admin.ts:141-162`) takes any bound `Date.parse` can read and stores the text;
   `core/authorization.ts:70-71` and `core/worker-queries.ts:35-36` compare texts. A
   `validUntil` of "Jan 1 2026" never ends, a `validFrom` of it never begins, and an
   offset is ignored. `docs/USER_STORIES.md:379-381`: "optionally with opt-in and a validity
   interval"; `test/hardening.test.ts:98`: "isolated by registry and validity interval".
   With `Held(row, at) == Meant(row, at)`, `access` violates `OnlyEntitled`: a worker acts
   by a grant after the moment that its end means.
6. **The right to publish.** `postPublish` (`api/routes.ts:454`) asks for the flag
   `transition`. `docs/USER_STORIES.md:229` and `:241`: "As a case worker with write
   permission, I can publish a case", and withdraw it. With `Needed(op) == Documented(op)`,
   `access` violates `NothingWithheld`.
7. **Opening a case without a grant.** A case form without a diary number
   opens a case (`services/forms.ts:132-153`) for any worker of the form's audience.
   `api/routes.ts:80-81`: "Authorization for creation: workers need write on the category".
   Without the disjunct `op = "open"` of `Entitled`, `access` violates `AccessInv`, in its part
   for `OnlyEntitled`.
8. **Labels of another registry.** `renderPublishing`
   (`public/app.js:266`, `287-299`) labels every row of the search over all registries by the
   selected registry's metadata; `stateBadge` then shows a raw state id, as closed, or the
   name another registry has for it. `docs/MULTILINGUAL_SUPPORT_PLAN.md:228-229`: "make the
   console consume resolved labels"; `:234-235`: "without displaying raw IDs as labels".
   Without the condition on `view.scope`, `console` violates `LabelledByOwnRegistry`.

Reviewed and left as they are: an approval overwrites fields changed after the
submission was staged (the version is read in its own transaction, and nothing
promises otherwise); a process that dies between a put and its commit leaves a
file without a row; a delete that fails is dropped (`forms.ts:263`); the queue of
cases assigned to a worker is read without the grants that bound the others
(`core/worker-queries.ts:70`, against its lines 4-6); an INSERT of the run log that fails
ends the export of all registries (`exports.ts:28`, against its line 44); in the
console, the card of a pending submission posts to the registry selected by then
(`app.js:254`), cards that come late are appended to whatever is shown (`app.js:260`),
and the button of a new case can be pressed twice (`app.js:208`).

## 6. Not modelled

- Translations, labels, titles, the catalog row, form ids shared by two registries, the
  fields that conditions of rules name.
- Column widths, SQL text, HTTP and logging. A value too long for its column is a
  statement that fails.
- Operations' payloads and their schemas: an operation is its type, its states and its
  actor, and a body that does not validate is a refusal.
- The text matching and limits of the search, the localized answers of `getRegistries`
  and `getMeta`, the quoting of CSV.
- The console's layout, the input of its forms, and the sub-views of a portal.
- The SQLite adapter: it serves development and tests, its calls return at once, and
  the commands are modelled on the database of production.
- The order of several migrations: they run one after another in one loop, each in a
  transaction of its own; what two processes do to a fresh registry is in `ConfigApply`.
- Hashing of tokens and the identity provider: a credential is good or it is not.

## 7. Plan

In order; each module with its properties, mutants and, where it says so, proofs.

1. **CaseLedger**: invariants of the ledger itself, which the commands inherit by
   `LedgerImplemented`.
2. **MigrationRunner**: several migrations, several processes, crashes; each applied
   at most once and in order.
3. **Payloads**: `validate` of `domain/json-schema.ts` against a reference definition
   over bounded inputs.
4. **SqliteAdapter**: handlers interleaved on one connection, the depth counter,
   against the abstract transaction of `RegistryTx`.

To check a run: `tlc -config commands.cfg MCCases`; to check the proofs:
`tlapm CaseProofs.tla`.
