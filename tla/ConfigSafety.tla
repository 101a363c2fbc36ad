---------------------------- MODULE ConfigSafety ----------------------------
(***************************************************************************)
(* What must hold of a registry's configuration while jobs that apply it   *)
(* overlap, fail and die.                                                  *)
(***************************************************************************)
EXTENDS ConfigApply

\* The types of the state variables.
TypeOK ==
  /\ spine \in BOOLEAN
  /\ columns \subseteq Fields
  /\ regStates \subseteq States
  /\ edges \subseteq States \X States
  /\ forms \subseteq Form
  /\ rules \subseteq Rule
  /\ versions \in [1 .. MaxVersion -> Config \cup {None}]
  /\ live \in [Processes -> Config \cup {None}]
  /\ pc \in [Jobs -> {"idle", "spine", "creating", "columns", "adding", "forms", "record",
                      "register", "done", "failed"}]
  /\ job \in [Jobs -> [kind: {"edit", "boot", "promote", None}, proc: Processes \cup {None},
                       cfg: Config \cup {None}, missing: SUBSET Fields]]
  /\ solo \in Jobs \cup {None}

\* config-apply.ts, steps 2, 4 and 5 and "never drops": at every moment, for every
\* overlap of jobs and after every crash, a rule, a form, a transition and the
\* definition a process serves with name only columns and states that the registry
\* database has.
FormsGrounded == \A f \in forms : f.subset \subseteq columns
RulesGrounded == \A r \in rules : r.sets \subseteq columns /\ r.names \subseteq regStates
EdgesGrounded == edges \subseteq regStates \X regStates
LiveGrounded  == \A p \in Processes : live[p] # None =>
                   live[p].fields \subseteq columns /\ InitialState \in regStates

ConfigurationGrounded == FormsGrounded /\ RulesGrounded /\ EdgesGrounded /\ LiveGrounded

\* The databases are as the artifact says.
InEffect(c) ==
  /\ c.fields \subseteq columns /\ c.states \subseteq regStates
  /\ edges = c.edges /\ forms = c.forms /\ rules = c.rules

\* bootstrap.ts and admin.ts: an edit or a restart that no other job overlapped
\* repairs whatever earlier jobs, complete or not, had left: the databases are as
\* its artifact says, that artifact is the latest stored one, and the process that
\* ran it serves with it.
Undisturbed(j, kinds) == solo = j /\ pc[j] = "done" /\ job[j].kind \in kinds

ApplyTakesEffect ==
  \A j \in Jobs : Undisturbed(j, {"edit", "boot"}) =>
    /\ InEffect(job[j].cfg)
    /\ IsLatest(job[j].cfg.version) /\ versions[job[j].cfg.version] = job[j].cfg
    /\ live[job[j].proc] \in {job[j].cfg, None}

\* TESTING.md:65, "each edit bumps the config version": two edits that were
\* answered have versions of their own.
EachEditBumps ==
  \A i, j \in Jobs :
    pc[i] = "done" /\ pc[j] = "done" /\ job[i].kind = "edit" /\ job[j].kind = "edit"
      /\ job[i].cfg.version = job[j].cfg.version => i = j

\* config-promote.ts:26, "Read the latest applied config artifact": what is
\* exported, and applied at the next restart, is what was applied last.
ExportIsLatestApplied ==
  \A j \in Jobs : Undisturbed(j, {"edit", "boot", "promote"}) =>
    IsLatest(job[j].cfg.version)

-----------------------------------------------------------------------------
(* The inductive invariant behind ConfigurationGrounded: what a job has    *)
(* secured at each of its steps, and what is stored is valid.              *)

HasSpine(j)   == pc[j] \in {"columns", "adding", "forms", "record", "register"}
HasColumns(j) == pc[j] \in {"forms", "record", "register"}

Secured(j) ==
  /\ Active(j) => job[j].cfg # None /\ Valid(job[j].cfg)
  /\ Active(j) => job[j].cfg.version \in 1 .. MaxVersion
  /\ HasSpine(j) => spine
  /\ pc[j] = "adding" => job[j].cfg.fields \ job[j].missing \subseteq columns
  /\ HasColumns(j) => job[j].cfg.fields \subseteq columns /\ job[j].cfg.states \subseteq regStates
  /\ Active(j) /\ job[j].kind # "promote" => job[j].proc \in Processes
  /\ pc[j] = "register" => job[j].proc \in Processes

StoredValid == \A v \in DOMAIN versions : versions[v] # None => Valid(versions[v])

NoColumnsWithoutSpine == ~spine => columns = {}

ConfigInv ==
  /\ TypeOK
  /\ NoColumnsWithoutSpine
  /\ \A j \in Jobs : Secured(j)
  /\ StoredValid
  /\ ConfigurationGrounded

-----------------------------------------------------------------------------
(* The inductive invariant behind ApplyTakesEffect: how far a job that is  *)
(* not overlapped has brought the databases.                               *)

Newest(v) == \A w \in DOMAIN versions : versions[w] # None => w <= v

Far(j) ==
  LET c == job[j].cfg IN
  /\ Active(j) => Newest(c.version)
  /\ pc[j] \in {"forms", "record", "register", "done"} =>
       c.fields \subseteq columns /\ c.states \subseteq regStates /\ edges = c.edges
  /\ pc[j] \in {"record", "register", "done"} => forms = c.forms /\ rules = c.rules
  /\ pc[j] \in {"register", "done"} => IsLatest(c.version) /\ versions[c.version] = c
  /\ pc[j] = "done" => job[j].proc \in Processes /\ live[job[j].proc] \in {c, None}

SoloFar ==
  \A j \in Jobs : solo = j =>
    /\ \A i \in Jobs \ {j} : ~Active(i)
    /\ job[j].kind # "promote" => Far(j)

StoredNumbered == \A v \in DOMAIN versions : versions[v] # None => versions[v].version = v

EffectInv == StoredNumbered /\ SoloFar
=============================================================================
