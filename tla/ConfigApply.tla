---------------------------- MODULE ConfigApply ----------------------------
(***************************************************************************)
(* The configuration of one registry: services/config-apply.ts applies an  *)
(* artifact to the registry's own database and to the shared one in many   *)
(* transactions; services/admin.ts edits the stored artifact and applies   *)
(* the result; services/config-promote.ts applies the artifact of another  *)
(* environment; bootstrap.ts applies the stored one when a process starts. *)
(* Nothing excludes two of these jobs from running at the same time, and a *)
(* job that fails or dies leaves what it has committed.                    *)
(*                                                                         *)
(*   idle -> spine -> [creating] -> columns -> adding -> forms -> record   *)
(*        -> [register] -> done                                            *)
(***************************************************************************)
EXTENDS Integers

CONSTANTS
  Jobs,         \* applies of a configuration, each by one edit, boot or promotion
  Processes,    \* the server processes of the three trust zones
  Fields,       \* statutory fields
  States,
  InitialState,
  FormIds,
  RuleIds,
  MaxVersion,   \* bound: the highest version number
  Seed,         \* the artifact in the repository
  Edits,        \* what administrators ask for
  Artifacts,    \* what other environments have to promote
  None

Form == [id: FormIds, subset: SUBSET Fields]

\* sets: the fields of update_values; names: the states of onToState and toState.
Rule == [id: RuleIds, sets: SUBSET Fields, names: SUBSET States]

Edit == [fields: SUBSET Fields, states: SUBSET States, edges: SUBSET (States \X States),
         forms: SUBSET Form, rules: SUBSET Rule]

Config == [version: Nat \ {0}, fields: SUBSET Fields, states: SUBSET States,
           edges: SUBSET (States \X States), forms: SUBSET Form, rules: SUBSET Rule]

\* validateRegistryConfig.
Distinct(items) == \A x, y \in items : x.id = y.id => x = y

Valid(c) ==
  /\ InitialState \in c.states
  /\ c.edges \subseteq c.states \X c.states
  /\ Distinct(c.forms) /\ Distinct(c.rules)
  /\ \A f \in c.forms : f.subset \subseteq c.fields
  /\ \A r \in c.rules : r.sets \subseteq c.fields /\ r.names \subseteq c.states

ASSUME MaxVersionAssumption == MaxVersion \in Nat
ASSUME SeedAssumption == Seed \in Config
ASSUME EditsAssumption == Edits \subseteq Edit
ASSUME ArtifactsAssumption == Artifacts \subseteq Config
ASSUME NoConfigAssumption == None \notin Config
ASSUME NoJobAssumption == None \notin Jobs

-----------------------------------------------------------------------------

VARIABLES
  spine,     \* the registry database has its tables (migration 0002 is recorded)
  columns,   \* the field columns of cases
  regStates, \* states
  edges,     \* state_transitions
  forms,     \* form_definitions, shared database
  rules,     \* rules, shared database
  versions,  \* config_versions: the artifact of each version
  live,      \* the definition each running process serves with
  pc,        \* the next step of each job
  job,       \* what each job applies, and where
  solo       \* history: the job since whose start no other job was under way

tables == <<spine, columns, regStates, edges, forms, rules, versions>>
vars   == <<tables, live, pc, job, solo>>

Active(j) == pc[j] \notin {"idle", "done", "failed"}

\* ORDER BY version DESC, limited to one row.
IsLatest(v) == v \in DOMAIN versions /\ versions[v] # None
               /\ \A w \in DOMAIN versions : versions[w] # None => w <= v
NothingStored == \A v \in DOMAIN versions : versions[v] = None

NoJob == [kind |-> None, proc |-> None, cfg |-> None, missing |-> {}]

Init ==
  /\ spine = FALSE
  /\ columns = {} /\ regStates = {} /\ edges = {} /\ forms = {} /\ rules = {}
  /\ versions = [v \in 1 .. MaxVersion |-> None]
  /\ live = [p \in Processes |-> None]
  /\ pc = [j \in Jobs |-> "idle"]
  /\ job = [j \in Jobs |-> NoJob]
  /\ solo = None

-----------------------------------------------------------------------------
(* How a job starts. *)

Begin(j, kind, p, c) ==
  /\ pc[j] = "idle"
  /\ c.version <= MaxVersion
  /\ pc' = [pc EXCEPT ![j] = IF Valid(c) THEN "spine" ELSE "failed"]
  /\ job' = [job EXCEPT ![j] = [kind |-> kind, proc |-> p, cfg |-> c, missing |-> {}]]
  /\ solo' = IF \A i \in Jobs : ~Active(i) THEN j ELSE None
  /\ UNCHANGED <<tables, live>>

\* addForm, addRule: an item with the id of an old one takes its place.
Replace(old, new) == {x \in old : \A y \in new : y.id # x.id} \cup new

\* mutateRegistryConfig: the stored artifact, mutated, with the next version.
Edited(c, e) ==
  [version |-> c.version + 1,
   fields |-> c.fields \cup e.fields, states |-> c.states \cup e.states,
   edges |-> c.edges \cup e.edges,
   forms |-> Replace(c.forms, e.forms), rules |-> Replace(c.rules, e.rules)]

\* addField and addState refuse what is there.
Adds(c, e) == c.fields \cap e.fields = {} /\ c.states \cap e.states = {}

StartEdit(j) ==
  \E p \in Processes, e \in Edits, v \in DOMAIN versions :
    /\ live[p] # None
    /\ IsLatest(v) /\ Adds(versions[v], e)
    /\ Begin(j, "edit", p, Edited(versions[v], e))

\* bootstrapFromEnv: the latest persisted artifact, or else the repository's.
StartBoot(j) ==
  \E p \in Processes :
    /\ live[p] = None
    /\ \A i \in Jobs : Active(i) => job[i].proc # p
    /\ \/ NothingStored /\ Begin(j, "boot", p, Seed)
       \/ \E v \in DOMAIN versions : IsLatest(v) /\ Begin(j, "boot", p, versions[v])

\* promoteRegistry, run by an operator against this environment's databases.
StartPromotion(j) ==
  \E a \in Artifacts : Begin(j, "promote", None, a)

-----------------------------------------------------------------------------
(* applyRegistryConfig. *)

Goto(j, from, to) ==
  /\ pc[j] = from
  /\ pc' = [pc EXCEPT ![j] = to]
  /\ UNCHANGED <<live, solo>>

\* migrate: SELECT id FROM schema_migrations.
CheckSpine(j) ==
  /\ Goto(j, "spine", IF spine THEN "columns" ELSE "creating")
  /\ UNCHANGED <<tables, job>>

\* The spine migration and its record, in one transaction; it fails when another
\* process has created the tables since.
CreateSpine(j) ==
  /\ Goto(j, "creating", IF spine THEN "failed" ELSE "columns")
  /\ spine' = TRUE
  /\ columns' = IF spine THEN columns ELSE job[j].cfg.fields
  /\ UNCHANGED <<regStates, edges, forms, rules, versions, job>>

\* addMissingFieldColumns: one SELECT, then an ALTER TABLE for each column, which
\* fails when another job has added the column since.
FindMissing(j) ==
  /\ Goto(j, "columns", "adding")
  /\ job' = [job EXCEPT ![j].missing = job[j].cfg.fields \ columns]
  /\ UNCHANGED tables

AddColumn(j) ==
  \E f \in job[j].missing :
    /\ Goto(j, "adding", IF f \in columns THEN "failed" ELSE "adding")
    /\ columns' = columns \cup {f}
    /\ job' = [job EXCEPT ![j].missing = @ \ {f}]
    /\ UNCHANGED <<spine, regStates, edges, forms, rules, versions>>

\* Step 4, one transaction: states are upserted, transitions replaced wholesale.
StatesReplaced(c) == c.states
StatesKept(c) == regStates \cup c.states
EdgesAdded(c) == edges \cup c.edges
EdgesReplaced(c) == c.edges

SaveStates(j) ==
  /\ job[j].missing = {}
  /\ Goto(j, "adding", "forms")
  /\ regStates' = StatesKept(job[j].cfg)
  /\ edges' = EdgesReplaced(job[j].cfg)
  /\ UNCHANGED <<spine, columns, forms, rules, versions, job>>

\* Step 5, one transaction: stale forms and all rules go, the artifact's come.
SaveForms(j) ==
  /\ Goto(j, "forms", "record")
  /\ forms' = job[j].cfg.forms
  /\ rules' = job[j].cfg.rules
  /\ UNCHANGED <<spine, columns, regStates, edges, versions, job>>

\* Step 6: an upsert by version.
VersionUnset(c) == [c EXCEPT !.version = 1]
Stored(c) == c

RecordVersion(j) ==
  LET c == Stored(job[j].cfg) IN
  /\ Goto(j, "record", IF job[j].kind = "promote" THEN "done" ELSE "register")
  /\ versions' = [versions EXCEPT ![c.version] = c]
  /\ UNCHANGED <<spine, columns, regStates, edges, forms, rules, job>>

\* platform.registerRegistry, in the process of the job only.
Register(j) ==
  /\ pc[j] = "register"
  /\ pc' = [pc EXCEPT ![j] = "done"]
  /\ live' = [live EXCEPT ![job[j].proc] = job[j].cfg]
  /\ UNCHANGED <<tables, job, solo>>

-----------------------------------------------------------------------------
(* Failures. *)

\* A statement of the job fails; the transactions before it stay.
Fail(j) ==
  /\ Active(j)
  /\ pc' = [pc EXCEPT ![j] = "failed"]
  /\ UNCHANGED <<tables, live, job, solo>>

\* A process dies with everything it was doing.
Crash(p) ==
  /\ live[p] # None
  /\ live' = [live EXCEPT ![p] = None]
  /\ pc' = [j \in Jobs |-> IF Active(j) /\ job[j].proc = p THEN "failed" ELSE pc[j]]
  /\ UNCHANGED <<tables, job, solo>>

Apply(j) ==
  \/ CheckSpine(j) \/ CreateSpine(j) \/ FindMissing(j) \/ AddColumn(j)
  \/ SaveStates(j) \/ SaveForms(j) \/ RecordVersion(j) \/ Register(j)

\* No job is left to run.
Terminated ==
  /\ \A j \in Jobs : pc[j] \in {"done", "failed"}
  /\ UNCHANGED vars

Next ==
  \/ \E j \in Jobs : StartEdit(j) \/ StartBoot(j) \/ StartPromotion(j) \/ Apply(j) \/ Fail(j)
  \/ \E p \in Processes : Crash(p)
  \/ Terminated

Spec == Init /\ [][Next]_vars
=============================================================================
