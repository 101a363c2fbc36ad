---------------------------- MODULE ConfigProofs ----------------------------
(***************************************************************************)
(* ConfigInv is an inductive invariant of ConfigApply: whatever jobs       *)
(* overlap, fail or die, the stored configuration names only columns and   *)
(* states that exist.  Columns and states are only ever added, and a job   *)
(* writes the forms, rules and transitions that need them afterwards.      *)
(***************************************************************************)
EXTENDS ConfigSafety, TLAPS

\* A step of job j that leaves its record, the columns' and states' growth aside:
\* the other jobs keep what they have secured when columns and states only grow.
LEMMA OthersSecured ==
  ASSUME ConfigInv, NEW j \in Jobs,
         spine => spine', columns \subseteq columns', regStates \subseteq regStates',
         \A i \in Jobs \ {j} : pc'[i] = pc[i] /\ job'[i] = job[i]
  PROVE  \A i \in Jobs \ {j} : Secured(i)'
  BY DEF ConfigInv, Secured, Active, HasSpine, HasColumns, Valid, Distinct

\* What is grounded stays so when columns and states only grow.
LEMMA StaysGrounded ==
  ASSUME ConfigInv, columns \subseteq columns', regStates \subseteq regStates',
         UNCHANGED <<edges, forms, rules, live>>
  PROVE  ConfigurationGrounded'
  <1>1. FormsGrounded' /\ EdgesGrounded' /\ LiveGrounded'
    BY DEF ConfigInv, ConfigurationGrounded, FormsGrounded, EdgesGrounded, LiveGrounded
  <1>2. RulesGrounded'
    BY DEF ConfigInv, ConfigurationGrounded, RulesGrounded
  <1> QED BY <1>1, <1>2 DEF ConfigurationGrounded

\* A step that only moves jobs, or ends them.
LEMMA MoveInv ==
  ASSUME ConfigInv, NEW j \in Jobs,
         UNCHANGED <<tables, live>>, pc' = [pc EXCEPT ![j] = pc'[j]],
         job' = [job EXCEPT ![j] = job'[j]], TypeOK', Secured(j)'
  PROVE  ConfigInv'
  <1>1. \A i \in Jobs \ {j} : pc'[i] = pc[i] /\ job'[i] = job[i]
    BY DEF ConfigInv, TypeOK
  <1>2. \A i \in Jobs \ {j} : Secured(i)'
    BY <1>1, OthersSecured DEF tables
  <1>3. ConfigurationGrounded'
    BY StaysGrounded DEF tables
  <1>4. StoredValid'
    BY DEF ConfigInv, StoredValid, Valid, Distinct, tables
  <1>5. NoColumnsWithoutSpine'
    BY DEF ConfigInv, NoColumnsWithoutSpine, tables
  <1>6. \A i \in Jobs : Secured(i)'
    BY <1>2
  <1> QED BY <1>3, <1>4, <1>5, <1>6 DEF ConfigInv

LEMMA BeginInv ==
  ASSUME ConfigInv, NEW j \in Jobs, NEW k \in {"edit", "boot", "promote"},
         NEW p \in Processes \cup {None}, NEW c \in Config, Begin(j, k, p, c),
         k = "promote" \/ p \in Processes
  PROVE  ConfigInv'
  <1> DEFINE entry == [kind |-> k, proc |-> p, cfg |-> c, missing |-> {}]
  <1>1. /\ pc' = [pc EXCEPT ![j] = pc'[j]] /\ pc'[j] \in {"spine", "failed"}
        /\ (pc'[j] = "spine" => Valid(c))
    BY DEF Begin, ConfigInv, TypeOK
  <1>2. /\ job' = [job EXCEPT ![j] = entry] /\ job'[j] = entry
        /\ job' = [job EXCEPT ![j] = job'[j]]
    BY DEF Begin, ConfigInv, TypeOK
  <1>3. entry \in [kind: {"edit", "boot", "promote", None}, proc: Processes \cup {None},
                   cfg: Config \cup {None}, missing: SUBSET Fields]
    OBVIOUS
  <1>4. TypeOK'
    BY <1>1, <1>2, <1>3 DEF Begin, ConfigInv, TypeOK, tables
  <1>5. c.version \in 1 .. MaxVersion
    BY MaxVersionAssumption DEF Begin, Config
  <1>6. Secured(j)'
    BY <1>1, <1>2, <1>5, NoConfigAssumption DEF Secured, Active, HasSpine, HasColumns, Valid, Distinct
  <1> QED BY <1>1, <1>2, <1>4, <1>6, MoveInv DEF Begin

\* The artifact that an edit applies is a configuration.
LEMMA EditedType ==
  ASSUME NEW c \in Config, NEW e \in Edits
  PROVE  Edited(c, e) \in Config
  BY EditsAssumption DEF Edited, Config, Edit, Replace

LEMMA StartInv ==
  ASSUME ConfigInv, NEW j \in Jobs, StartEdit(j) \/ StartBoot(j) \/ StartPromotion(j)
  PROVE  ConfigInv'
  <1>1. CASE StartEdit(j)
    <2>1. PICK p \in Processes, e \in Edits, v \in DOMAIN versions :
            IsLatest(v) /\ Begin(j, "edit", p, Edited(versions[v], e))
      BY <1>1 DEF StartEdit
    <2>2. versions[v] \in Config
      BY <2>1 DEF IsLatest, ConfigInv, TypeOK
    <2> QED BY <2>1, <2>2, EditedType, BeginInv
  <1>2. CASE StartBoot(j)
    <2>1. PICK p \in Processes :
            \/ Begin(j, "boot", p, Seed)
            \/ \E v \in DOMAIN versions : IsLatest(v) /\ Begin(j, "boot", p, versions[v])
      BY <1>2 DEF StartBoot
    <2>2. CASE Begin(j, "boot", p, Seed)
      BY <2>2, SeedAssumption, BeginInv
    <2>3. CASE \E v \in DOMAIN versions : IsLatest(v) /\ Begin(j, "boot", p, versions[v])
      <3>1. PICK v \in DOMAIN versions : IsLatest(v) /\ Begin(j, "boot", p, versions[v])
        BY <2>3
      <3>2. versions[v] \in Config
        BY <3>1 DEF IsLatest, ConfigInv, TypeOK
      <3> QED BY <3>1, <3>2, BeginInv
    <2> QED BY <2>1, <2>2, <2>3
  <1>3. CASE StartPromotion(j)
    BY <1>3, ArtifactsAssumption, BeginInv DEF StartPromotion
  <1> QED BY <1>1, <1>2, <1>3

-----------------------------------------------------------------------------
(* The steps of an apply. *)

\* Goto moves one job and touches no record.
LEMMA GotoFacts ==
  ASSUME ConfigInv, NEW j \in Jobs, NEW from, NEW to, Goto(j, from, to)
  PROVE  /\ pc[j] = from /\ pc'[j] = to
         /\ pc' = [pc EXCEPT ![j] = pc'[j]]
         /\ \A i \in Jobs \ {j} : pc'[i] = pc[i]
         /\ UNCHANGED <<live, solo>>
  BY DEF Goto, ConfigInv, TypeOK

\* The record of a job that is under way.
LEMMA ActiveJob ==
  ASSUME ConfigInv, NEW j \in Jobs, Active(j)
  PROVE  /\ job[j].cfg \in Config /\ Valid(job[j].cfg)
         /\ job[j].cfg.version \in 1 .. MaxVersion
         /\ job[j].missing \subseteq Fields
         /\ Secured(j)
  BY DEF ConfigInv, TypeOK, Secured

LEMMA CheckSpineInv ==
  ASSUME ConfigInv, NEW j \in Jobs, CheckSpine(j)
  PROVE  ConfigInv'
  <1>1. /\ pc[j] = "spine" /\ pc'[j] = (IF spine THEN "columns" ELSE "creating")
        /\ pc' = [pc EXCEPT ![j] = pc'[j]]
        /\ UNCHANGED <<tables, live, job, solo>>
    BY GotoFacts DEF CheckSpine
  <1>2. job' = [job EXCEPT ![j] = job'[j]]
    BY <1>1 DEF ConfigInv, TypeOK
  <1>3. TypeOK'
    BY <1>1 DEF ConfigInv, TypeOK, tables
  <1>4. Secured(j)'
    BY <1>1 DEF ConfigInv, Secured, Active, HasSpine, HasColumns, Valid, Distinct, tables
  <1> QED BY <1>1, <1>2, <1>3, <1>4, MoveInv

LEMMA FindMissingInv ==
  ASSUME ConfigInv, NEW j \in Jobs, FindMissing(j)
  PROVE  ConfigInv'
  <1> DEFINE m == job[j].cfg.fields \ columns
  <1>1. /\ pc[j] = "columns" /\ pc'[j] = "adding"
        /\ pc' = [pc EXCEPT ![j] = pc'[j]]
        /\ UNCHANGED <<tables, live, solo>>
    BY GotoFacts DEF FindMissing
  <1>2. job[j].cfg \in Config /\ m \subseteq Fields /\ Secured(j) /\ job[j].cfg # None
    BY <1>1, ActiveJob, NoConfigAssumption DEF Active, Config
  <1>3. /\ job' = [job EXCEPT ![j].missing = m]
        /\ job'[j] = [job[j] EXCEPT !.missing = m]
        /\ job' = [job EXCEPT ![j] = job'[j]]
    BY DEF FindMissing, ConfigInv, TypeOK
  <1>4. /\ job'[j].cfg = job[j].cfg /\ job'[j].missing = m
        /\ job'[j].proc = job[j].proc /\ job'[j].kind = job[j].kind
    BY <1>3 DEF ConfigInv, TypeOK
  <1>5. TypeOK'
    BY <1>1, <1>2, <1>3 DEF ConfigInv, TypeOK, tables
  <1>6. Secured(j)'
    BY <1>1, <1>2, <1>4 DEF Secured, Active, HasSpine, HasColumns, Valid, Distinct, tables
  <1> QED BY <1>1, <1>3, <1>5, <1>6, MoveInv

\* A step of an apply that writes to the registry database: the rest of the
\* invariant, once its own job and the types are known to be in order.
LEMMA WriteInv ==
  ASSUME ConfigInv, NEW j \in Jobs,
         spine => spine', columns \subseteq columns', regStates \subseteq regStates',
         \A i \in Jobs \ {j} : pc'[i] = pc[i] /\ job'[i] = job[i],
         TypeOK', NoColumnsWithoutSpine', Secured(j)', StoredValid', ConfigurationGrounded'
  PROVE  ConfigInv'
  BY OthersSecured DEF ConfigInv

LEMMA CreateSpineInv ==
  ASSUME ConfigInv, NEW j \in Jobs, CreateSpine(j)
  PROVE  ConfigInv'
  <1>1. /\ pc[j] = "creating" /\ pc'[j] = (IF spine THEN "failed" ELSE "columns")
        /\ \A i \in Jobs \ {j} : pc'[i] = pc[i] /\ job'[i] = job[i]
        /\ pc' = [pc EXCEPT ![j] = pc'[j]]
        /\ UNCHANGED <<live, solo, job, regStates, edges, forms, rules, versions>>
        /\ spine' = TRUE
    BY GotoFacts DEF CreateSpine
  <1>2. job[j].cfg \in Config /\ Secured(j)
    BY <1>1, ActiveJob DEF Active
  <1>3. columns \subseteq columns' /\ columns' \subseteq Fields
    BY <1>2 DEF CreateSpine, ConfigInv, TypeOK, NoColumnsWithoutSpine, Config
  <1>4. TypeOK'
    BY <1>1, <1>3 DEF ConfigInv, TypeOK
  <1>5. Secured(j)'
    BY <1>1, <1>2 DEF Secured, Active, HasSpine, HasColumns, Valid, Distinct
  <1>6. ConfigurationGrounded'
    BY <1>1, <1>3, StaysGrounded
  <1>7. StoredValid' /\ NoColumnsWithoutSpine'
    BY <1>1 DEF ConfigInv, StoredValid, NoColumnsWithoutSpine, Valid, Distinct
  <1> QED BY <1>1, <1>3, <1>4, <1>5, <1>6, <1>7, WriteInv

LEMMA AddColumnInv ==
  ASSUME ConfigInv, NEW j \in Jobs, AddColumn(j)
  PROVE  ConfigInv'
  <1>1. PICK f \in job[j].missing :
          /\ Goto(j, "adding", IF f \in columns THEN "failed" ELSE "adding")
          /\ columns' = columns \cup {f}
          /\ job' = [job EXCEPT ![j].missing = @ \ {f}]
          /\ UNCHANGED <<spine, regStates, edges, forms, rules, versions>>
    BY DEF AddColumn
  <1>2. /\ pc[j] = "adding" /\ pc'[j] \in {"failed", "adding"}
        /\ pc' = [pc EXCEPT ![j] = pc'[j]]
        /\ \A i \in Jobs \ {j} : pc'[i] = pc[i]
        /\ UNCHANGED <<live, solo>>
    BY <1>1, GotoFacts
  <1>3. job[j].cfg \in Config /\ Secured(j) /\ job[j].missing \subseteq Fields /\ spine
    BY <1>2, ActiveJob DEF Active, Secured, HasSpine
  <1>4. /\ job'[j] = [job[j] EXCEPT !.missing = @ \ {f}]
        /\ \A i \in Jobs \ {j} : job'[i] = job[i]
        /\ job' = [job EXCEPT ![j] = job'[j]]
    BY <1>1 DEF ConfigInv, TypeOK
  <1>5. /\ job'[j].cfg = job[j].cfg /\ job'[j].missing = job[j].missing \ {f}
        /\ job'[j].proc = job[j].proc /\ job'[j].kind = job[j].kind
    BY <1>4 DEF ConfigInv, TypeOK
  <1>6. columns \subseteq columns' /\ columns' \subseteq Fields /\ spine'
    BY <1>1, <1>3 DEF ConfigInv, TypeOK
  <1>7. TypeOK'
    BY <1>1, <1>2, <1>3, <1>4, <1>6 DEF ConfigInv, TypeOK
  <1>8. Secured(j)'
    BY <1>1, <1>2, <1>3, <1>5, <1>6 DEF Secured, Active, HasSpine, HasColumns, Valid, Distinct
  <1>9. ConfigurationGrounded'
    BY <1>1, <1>2, <1>6, StaysGrounded
  <1>10. StoredValid' /\ NoColumnsWithoutSpine'
    BY <1>1, <1>6 DEF ConfigInv, StoredValid, NoColumnsWithoutSpine, Valid, Distinct
  <1> QED BY <1>1, <1>2, <1>4, <1>6, <1>7, <1>8, <1>9, <1>10, WriteInv

LEMMA SaveStatesInv ==
  ASSUME ConfigInv, NEW j \in Jobs, SaveStates(j)
  PROVE  ConfigInv'
  <1>1. /\ pc[j] = "adding" /\ pc'[j] = "forms" /\ job[j].missing = {}
        /\ pc' = [pc EXCEPT ![j] = pc'[j]]
        /\ \A i \in Jobs \ {j} : pc'[i] = pc[i] /\ job'[i] = job[i]
        /\ regStates' = regStates \cup job[j].cfg.states /\ edges' = job[j].cfg.edges
        /\ UNCHANGED <<live, solo, job, spine, columns, forms, rules, versions>>
    BY GotoFacts DEF SaveStates, StatesKept, EdgesReplaced
  <1>2. job[j].cfg \in Config /\ Valid(job[j].cfg) /\ Secured(j)
    BY <1>1, ActiveJob DEF Active
  <1>3. regStates \subseteq regStates' /\ regStates' \subseteq States
        /\ edges' \subseteq States \X States
    BY <1>1, <1>2 DEF ConfigInv, TypeOK, Config
  <1>4. TypeOK'
    BY <1>1, <1>3 DEF ConfigInv, TypeOK
  <1>5. Secured(j)'
    BY <1>1, <1>2 DEF Secured, Active, HasSpine, HasColumns, Valid, Distinct
  <1>6. FormsGrounded' /\ LiveGrounded'
    BY <1>1, <1>3 DEF ConfigInv, ConfigurationGrounded, FormsGrounded, LiveGrounded
  <1>7. RulesGrounded'
    BY <1>1, <1>3 DEF ConfigInv, ConfigurationGrounded, RulesGrounded
  <1>8. EdgesGrounded'
    BY <1>1, <1>2 DEF EdgesGrounded, Valid
  <1>9. StoredValid' /\ NoColumnsWithoutSpine'
    BY <1>1 DEF ConfigInv, StoredValid, NoColumnsWithoutSpine, Valid, Distinct
  <1> QED BY <1>1, <1>3, <1>4, <1>5, <1>6, <1>7, <1>8, <1>9, WriteInv DEF ConfigurationGrounded

LEMMA SaveFormsInv ==
  ASSUME ConfigInv, NEW j \in Jobs, SaveForms(j)
  PROVE  ConfigInv'
  <1>1. /\ pc[j] = "forms" /\ pc'[j] = "record"
        /\ pc' = [pc EXCEPT ![j] = pc'[j]]
        /\ \A i \in Jobs \ {j} : pc'[i] = pc[i] /\ job'[i] = job[i]
        /\ forms' = job[j].cfg.forms /\ rules' = job[j].cfg.rules
        /\ UNCHANGED <<live, solo, job, spine, columns, regStates, edges, versions>>
    BY GotoFacts DEF SaveForms
  <1>2. job[j].cfg \in Config /\ Valid(job[j].cfg) /\ Secured(j)
    BY <1>1, ActiveJob DEF Active
  <1>3. job[j].cfg.fields \subseteq columns /\ job[j].cfg.states \subseteq regStates
    BY <1>1, <1>2 DEF Secured, HasColumns
  <1>4. TypeOK'
    BY <1>1, <1>2 DEF ConfigInv, TypeOK, Config
  <1>5. Secured(j)'
    BY <1>1, <1>2 DEF Secured, Active, HasSpine, HasColumns, Valid, Distinct
  <1>6. FormsGrounded'
    BY <1>1, <1>2, <1>3 DEF FormsGrounded, Valid
  <1>7. RulesGrounded'
    BY <1>1, <1>2, <1>3 DEF RulesGrounded, Valid
  <1>8. EdgesGrounded' /\ LiveGrounded'
    BY <1>1 DEF ConfigInv, ConfigurationGrounded, EdgesGrounded, LiveGrounded
  <1>9. StoredValid' /\ NoColumnsWithoutSpine'
    BY <1>1 DEF ConfigInv, StoredValid, NoColumnsWithoutSpine, Valid, Distinct
  <1> QED BY <1>1, <1>4, <1>5, <1>6, <1>7, <1>8, <1>9, WriteInv DEF ConfigurationGrounded

LEMMA RecordVersionInv ==
  ASSUME ConfigInv, NEW j \in Jobs, RecordVersion(j)
  PROVE  ConfigInv'
  <1> DEFINE c == job[j].cfg
  <1>1. /\ pc[j] = "record"
        /\ pc'[j] = (IF job[j].kind = "promote" THEN "done" ELSE "register")
        /\ pc' = [pc EXCEPT ![j] = pc'[j]]
        /\ \A i \in Jobs \ {j} : pc'[i] = pc[i] /\ job'[i] = job[i]
        /\ versions' = [versions EXCEPT ![c.version] = c]
        /\ UNCHANGED <<live, solo, job, spine, columns, regStates, edges, forms, rules>>
    BY GotoFacts DEF RecordVersion, Stored
  <1>2. c \in Config /\ Valid(c) /\ c.version \in 1 .. MaxVersion /\ Secured(j)
    BY <1>1, ActiveJob DEF Active
  <1>3. TypeOK'
    BY <1>1, <1>2 DEF ConfigInv, TypeOK
  <1>4. Secured(j)'
    BY <1>1, <1>2 DEF Secured, Active, HasSpine, HasColumns, Valid, Distinct
  <1>5. ASSUME NEW v \in DOMAIN versions', versions'[v] # None
        PROVE  Valid(versions'[v])
    BY <1>1, <1>2, <1>5 DEF ConfigInv, TypeOK, StoredValid
  <1>6. StoredValid'
    BY <1>5 DEF StoredValid, Valid, Distinct
  <1>7. ConfigurationGrounded' /\ NoColumnsWithoutSpine'
    BY <1>1, StaysGrounded DEF ConfigInv, NoColumnsWithoutSpine
  <1> QED BY <1>1, <1>3, <1>4, <1>6, <1>7, WriteInv

LEMMA RegisterInv ==
  ASSUME ConfigInv, NEW j \in Jobs, Register(j)
  PROVE  ConfigInv'
  <1>1. /\ pc[j] = "register" /\ pc'[j] = "done"
        /\ \A i \in Jobs \ {j} : pc'[i] = pc[i] /\ job'[i] = job[i]
        /\ pc' = [pc EXCEPT ![j] = "done"]
        /\ live' = [live EXCEPT ![job[j].proc] = job[j].cfg]
        /\ UNCHANGED <<tables, job, solo>>
    BY DEF Register, ConfigInv, TypeOK
  <1>2. /\ job[j].cfg \in Config /\ Valid(job[j].cfg) /\ Secured(j)
        /\ job[j].proc \in Processes
        /\ job[j].cfg.fields \subseteq columns /\ job[j].cfg.states \subseteq regStates
    BY <1>1, ActiveJob DEF Active, Secured, HasColumns
  <1>3. TypeOK'
    BY <1>1, <1>2 DEF ConfigInv, TypeOK, tables
  <1>4. Secured(j)'
    BY <1>1, <1>2 DEF Secured, Active, HasSpine, HasColumns
  <1>5. \A p \in Processes : live'[p] # None =>
          live'[p].fields \subseteq columns /\ InitialState \in regStates
    BY <1>1, <1>2 DEF ConfigInv, TypeOK, ConfigurationGrounded, LiveGrounded, Valid
  <1>6. LiveGrounded'
    BY <1>1, <1>5 DEF LiveGrounded, tables
  <1>7. FormsGrounded' /\ EdgesGrounded'
    BY <1>1 DEF ConfigInv, ConfigurationGrounded, FormsGrounded, EdgesGrounded, tables
  <1>8. RulesGrounded'
    BY <1>1 DEF ConfigInv, ConfigurationGrounded, RulesGrounded, tables
  <1>9. StoredValid' /\ NoColumnsWithoutSpine'
    BY <1>1 DEF ConfigInv, StoredValid, NoColumnsWithoutSpine, Valid, Distinct, tables
  <1> QED BY <1>1, <1>3, <1>4, <1>6, <1>7, <1>8, <1>9, WriteInv DEF ConfigurationGrounded, tables

LEMMA FailInv ==
  ASSUME ConfigInv, NEW j \in Jobs, Fail(j)
  PROVE  ConfigInv'
  <1>1. /\ pc' = [pc EXCEPT ![j] = "failed"] /\ pc'[j] = "failed"
        /\ UNCHANGED <<tables, live, job, solo>>
    BY DEF Fail, ConfigInv, TypeOK
  <1>2. TypeOK'
    BY <1>1 DEF ConfigInv, TypeOK, tables
  <1>3. Secured(j)'
    BY <1>1 DEF Secured, Active, HasSpine, HasColumns
  <1>4. job' = [job EXCEPT ![j] = job'[j]] /\ pc' = [pc EXCEPT ![j] = pc'[j]]
    BY <1>1 DEF ConfigInv, TypeOK
  <1> QED BY <1>1, <1>2, <1>3, <1>4, MoveInv

LEMMA CrashInv ==
  ASSUME ConfigInv, NEW p \in Processes, Crash(p)
  PROVE  ConfigInv'
  <1>1. /\ live' = [live EXCEPT ![p] = None]
        /\ \A j \in Jobs : pc'[j] \in {"failed", pc[j]}
        /\ UNCHANGED <<tables, job, solo>>
    BY DEF Crash
  <1>2. TypeOK'
    BY <1>1 DEF Crash, ConfigInv, TypeOK, tables
  <1>3. \A j \in Jobs : Secured(j)'
    BY <1>1 DEF ConfigInv, Secured, Active, HasSpine, HasColumns, Valid, Distinct, tables
  <1>4. LiveGrounded'
    BY <1>1 DEF ConfigInv, TypeOK, ConfigurationGrounded, LiveGrounded, tables
  <1>5. FormsGrounded' /\ EdgesGrounded'
    BY <1>1 DEF ConfigInv, ConfigurationGrounded, FormsGrounded, EdgesGrounded, tables
  <1>6. RulesGrounded'
    BY <1>1 DEF ConfigInv, ConfigurationGrounded, RulesGrounded, tables
  <1>7. StoredValid' /\ NoColumnsWithoutSpine'
    BY <1>1 DEF ConfigInv, StoredValid, NoColumnsWithoutSpine, Valid, Distinct, tables
  <1> QED BY <1>2, <1>3, <1>4, <1>5, <1>6, <1>7 DEF ConfigInv, ConfigurationGrounded

-----------------------------------------------------------------------------

LEMMA InitInv == Init => ConfigInv
  <1> SUFFICES ASSUME Init PROVE ConfigInv
    OBVIOUS
  <1>1. TypeOK
    BY DEF Init, TypeOK, NoJob
  <1>2. NoColumnsWithoutSpine /\ StoredValid /\ \A j \in Jobs : Secured(j)
    BY DEF Init, NoColumnsWithoutSpine, StoredValid, Secured, Active, HasSpine, HasColumns
  <1>3. ConfigurationGrounded
    BY DEF Init, ConfigurationGrounded, FormsGrounded, RulesGrounded, EdgesGrounded, LiveGrounded
  <1> QED BY <1>1, <1>2, <1>3 DEF ConfigInv

LEMMA StutterInv ==
  ASSUME ConfigInv, UNCHANGED vars
  PROVE  ConfigInv'
  <1>1. TypeOK' /\ NoColumnsWithoutSpine' /\ StoredValid'
    BY DEF ConfigInv, TypeOK, NoColumnsWithoutSpine, StoredValid, Valid, Distinct, vars, tables
  <1>2. \A j \in Jobs : Secured(j)'
    BY DEF ConfigInv, Secured, Active, HasSpine, HasColumns, Valid, Distinct, vars, tables
  <1>3. ConfigurationGrounded'
    BY StaysGrounded DEF vars, tables
  <1> QED BY <1>1, <1>2, <1>3 DEF ConfigInv

LEMMA NextInv == ConfigInv /\ [Next]_vars => ConfigInv'
  <1> SUFFICES ASSUME ConfigInv, [Next]_vars PROVE ConfigInv'
    OBVIOUS
  <1>1. ASSUME NEW j \in Jobs, StartEdit(j) \/ StartBoot(j) \/ StartPromotion(j)
        PROVE  ConfigInv'
    BY <1>1, StartInv
  <1>2. ASSUME NEW j \in Jobs, Apply(j)
        PROVE  ConfigInv'
    BY <1>2, CheckSpineInv, CreateSpineInv, FindMissingInv, AddColumnInv, SaveStatesInv,
       SaveFormsInv, RecordVersionInv, RegisterInv DEF Apply
  <1>3. ASSUME NEW j \in Jobs, Fail(j)
        PROVE  ConfigInv'
    BY <1>3, FailInv
  <1>4. ASSUME NEW p \in Processes, Crash(p)
        PROVE  ConfigInv'
    BY <1>4, CrashInv
  <1>5. CASE Terminated \/ UNCHANGED vars
    BY <1>5, StutterInv DEF Terminated
  <1> QED BY <1>1, <1>2, <1>3, <1>4, <1>5 DEF Next

\* The inductive invariant holds in every reachable state.
THEOREM ConfigInvariance == Spec => []ConfigInv
  BY InitInv, NextInv, PTL DEF Spec

\* Whatever applies overlap, fail or die (config-apply.ts), the stored rules, forms
\* and transitions and the definitions in use name only columns and states that exist.
THEOREM ConfigurationStaysGrounded == Spec => []ConfigurationGrounded
  <1>1. ConfigInv => ConfigurationGrounded
    BY DEF ConfigInv
  <1> QED BY <1>1, ConfigInvariance, PTL

-----------------------------------------------------------------------------
(* A job that is not overlapped: nothing but its own steps touches what it  *)
(* has brought about, so that each of them may build on the one before.     *)

\* A job that starts when no other is under way, with a version none stored exceeds.
LEMMA BeginEffect ==
  ASSUME ConfigInv, EffectInv, NEW j \in Jobs, NEW k, NEW p, NEW c, Begin(j, k, p, c),
         k # "promote" => Newest(c.version)
  PROVE  EffectInv'
  <1> DEFINE entry == [kind |-> k, proc |-> p, cfg |-> c, missing |-> {}]
  <1>1. /\ pc[j] = "idle" /\ pc'[j] \in {"spine", "failed"}
        /\ \A i \in Jobs \ {j} : pc'[i] = pc[i]
        /\ job'[j] = entry
        /\ UNCHANGED tables
    BY DEF Begin, ConfigInv, TypeOK
  <1>2. solo' = IF \A i \in Jobs : ~Active(i) THEN j ELSE None
    BY DEF Begin
  <1>3. ASSUME NEW i \in Jobs, solo' = i
        PROVE  i = j /\ \A h \in Jobs : ~Active(h)
    BY <1>2, <1>3, NoJobAssumption
  <1>4. ASSUME k # "promote"
        PROVE  Far(j)'
    BY <1>1, <1>4 DEF Far, Newest, tables
  <1>5. (\A h \in Jobs : ~Active(h)) => \A h \in Jobs \ {j} : ~Active(h)'
    BY <1>1 DEF Active
  <1>6. job'[j].kind = k
    BY <1>1
  <1>7. SoloFar'
    BY <1>3, <1>4, <1>5, <1>6 DEF SoloFar
  <1> QED BY <1>1, <1>7 DEF EffectInv, StoredNumbered, tables

LEMMA StartEffect ==
  ASSUME ConfigInv, EffectInv, NEW j \in Jobs, StartEdit(j) \/ StartBoot(j) \/ StartPromotion(j)
  PROVE  EffectInv'
  <1>1. \A v \in DOMAIN versions : v \in Nat /\ (versions[v] # None => versions[v].version = v)
    BY MaxVersionAssumption DEF ConfigInv, TypeOK, EffectInv, StoredNumbered
  <1>2. CASE StartEdit(j)
    <2>1. PICK p \in Processes, e \in Edits, v \in DOMAIN versions :
            IsLatest(v) /\ Begin(j, "edit", p, Edited(versions[v], e))
      BY <1>2 DEF StartEdit
    <2>2. Edited(versions[v], e).version = v + 1
      BY <1>1, <2>1 DEF Edited, IsLatest
    <2>3. Newest(Edited(versions[v], e).version)
      BY <1>1, <2>1, <2>2 DEF Newest, IsLatest
    <2> QED BY <2>1, <2>3, BeginEffect
  <1>3. CASE StartBoot(j)
    <2>1. PICK p \in Processes :
            \/ NothingStored /\ Begin(j, "boot", p, Seed)
            \/ \E v \in DOMAIN versions : IsLatest(v) /\ Begin(j, "boot", p, versions[v])
      BY <1>3 DEF StartBoot
    <2>2. CASE NothingStored /\ Begin(j, "boot", p, Seed)
      BY <2>2, BeginEffect DEF NothingStored, Newest
    <2>3. CASE \E v \in DOMAIN versions : IsLatest(v) /\ Begin(j, "boot", p, versions[v])
      <3>1. PICK v \in DOMAIN versions : IsLatest(v) /\ Begin(j, "boot", p, versions[v])
        BY <2>3
      <3>2. Newest(versions[v].version)
        BY <1>1, <3>1 DEF Newest, IsLatest
      <3> QED BY <3>1, <3>2, BeginEffect
    <2> QED BY <2>1, <2>2, <2>3
  <1>4. CASE StartPromotion(j)
    BY <1>4, BeginEffect DEF StartPromotion
  <1> QED BY <1>2, <1>3, <1>4

\* A step of a job under way: if one is not overlapped it is this one, and the rest is its
\* own to keep.
LEMMA StepEffect ==
  ASSUME EffectInv, NEW j \in Jobs, Active(j), solo' = solo,
         \A i \in Jobs \ {j} : pc'[i] = pc[i],
         job'[j].kind = job[j].kind, StoredNumbered',
         Far(j) /\ job[j].kind # "promote" => Far(j)'
  PROVE  EffectInv'
  <1>1. ASSUME NEW i \in Jobs, solo' = i
        PROVE  i = j /\ (\A h \in Jobs \ {j} : ~Active(h)) /\ (job[j].kind # "promote" => Far(j))
    BY <1>1 DEF EffectInv, SoloFar
  <1>2. (\A h \in Jobs \ {j} : ~Active(h)) => \A h \in Jobs \ {j} : ~Active(h)'
    BY DEF Active
  <1> QED BY <1>1, <1>2 DEF EffectInv, SoloFar

LEMMA ApplyEffect ==
  ASSUME ConfigInv, EffectInv, NEW j \in Jobs, Apply(j)
  PROVE  EffectInv'
  <1> DEFINE c == job[j].cfg
  <1>1. CASE CheckSpine(j)
    <2>1. /\ pc[j] = "spine" /\ pc'[j] \in {"columns", "creating"} /\ Active(j)
          /\ \A i \in Jobs \ {j} : pc'[i] = pc[i]
          /\ UNCHANGED <<tables, live, job, solo>>
      BY <1>1, GotoFacts DEF CheckSpine, Active
    <2>2. Far(j) => Far(j)'
      BY <2>1 DEF Far, Newest, tables
    <2> QED BY <2>1, <2>2, StepEffect DEF EffectInv, StoredNumbered, tables
  <1>2. CASE CreateSpine(j)
    <2>1. /\ pc[j] = "creating" /\ pc'[j] \in {"columns", "failed"} /\ Active(j)
          /\ \A i \in Jobs \ {j} : pc'[i] = pc[i]
          /\ UNCHANGED <<versions, job, solo>>
      BY <1>2, GotoFacts DEF CreateSpine, Active
    <2>2. Far(j) => Far(j)'
      BY <2>1 DEF Far, Newest, Active
    <2> QED BY <2>1, <2>2, StepEffect DEF EffectInv, StoredNumbered
  <1>3. CASE FindMissing(j) \/ AddColumn(j)
    <2>1. /\ pc[j] \in {"columns", "adding"} /\ pc'[j] \in {"adding", "failed"} /\ Active(j)
          /\ \A i \in Jobs \ {j} : pc'[i] = pc[i]
          /\ UNCHANGED <<versions, solo>>
      <3>1. CASE FindMissing(j)
        BY <3>1, GotoFacts DEF FindMissing, Active, tables
      <3>2. CASE AddColumn(j)
        BY <3>2, GotoFacts DEF AddColumn, Active
      <3> QED BY <1>3, <3>1, <3>2
    <2>2. job'[j].cfg = c /\ job'[j].kind = job[j].kind
      BY <1>3 DEF FindMissing, AddColumn, ConfigInv, TypeOK
    <2>3. Far(j) => Far(j)'
      BY <2>1, <2>2 DEF Far, Newest, Active
    <2> QED BY <2>1, <2>2, <2>3, StepEffect DEF EffectInv, StoredNumbered
  <1>4. CASE SaveStates(j)
    <2>1. /\ pc[j] = "adding" /\ pc'[j] = "forms" /\ job[j].missing = {} /\ Active(j)
          /\ \A i \in Jobs \ {j} : pc'[i] = pc[i]
          /\ regStates' = regStates \cup c.states /\ edges' = c.edges
          /\ UNCHANGED <<columns, versions, job, solo>>
      BY <1>4, GotoFacts DEF SaveStates, StatesKept, EdgesReplaced, Active
    <2>2. c.fields \subseteq columns
      BY <2>1 DEF ConfigInv, Secured
    <2>3. Far(j) => Far(j)'
      BY <2>1, <2>2 DEF Far, Newest, Active
    <2> QED BY <2>1, <2>3, StepEffect DEF EffectInv, StoredNumbered
  <1>5. CASE SaveForms(j)
    <2>1. /\ pc[j] = "forms" /\ pc'[j] = "record" /\ Active(j)
          /\ \A i \in Jobs \ {j} : pc'[i] = pc[i]
          /\ forms' = c.forms /\ rules' = c.rules
          /\ UNCHANGED <<columns, regStates, edges, versions, job, solo>>
      BY <1>5, GotoFacts DEF SaveForms, Active
    <2>2. Far(j) => Far(j)'
      BY <2>1 DEF Far, Newest, Active
    <2> QED BY <2>1, <2>2, StepEffect DEF EffectInv, StoredNumbered
  <1>6. CASE RecordVersion(j)
    <2>1. /\ pc[j] = "record" /\ Active(j)
          /\ pc'[j] = IF job[j].kind = "promote" THEN "done" ELSE "register"
          /\ \A i \in Jobs \ {j} : pc'[i] = pc[i]
          /\ versions' = [versions EXCEPT ![c.version] = c]
          /\ UNCHANGED <<columns, regStates, edges, forms, rules, job, solo>>
      BY <1>6, GotoFacts DEF RecordVersion, Stored, Active
    <2>2. c # None /\ c.version \in 1 .. MaxVersion /\ c.version \in Nat
      BY <2>1, ActiveJob, NoConfigAssumption, MaxVersionAssumption
    <2>3. /\ DOMAIN versions' = DOMAIN versions /\ c.version \in DOMAIN versions
          /\ \A v \in DOMAIN versions : versions'[v] = IF v = c.version THEN c ELSE versions[v]
      BY <2>1, <2>2 DEF ConfigInv, TypeOK
    <2>4. StoredNumbered'
      BY <2>3 DEF EffectInv, StoredNumbered
    <2>5. ASSUME Far(j), job[j].kind # "promote"
          PROVE  Far(j)'
      <3>1. Newest(c.version)' /\ IsLatest(c.version)' /\ versions'[c.version] = c
        BY <2>1, <2>2, <2>3, <2>5 DEF Far, Newest, IsLatest
      <3> QED BY <2>1, <2>5, <3>1 DEF Far
    <2> QED BY <2>1, <2>4, <2>5, StepEffect
  <1>7. CASE Register(j)
    <2>1. /\ pc[j] = "register" /\ pc'[j] = "done" /\ Active(j)
          /\ \A i \in Jobs \ {j} : pc'[i] = pc[i]
          /\ live' = [live EXCEPT ![job[j].proc] = c]
          /\ UNCHANGED <<tables, job, solo>>
      BY <1>7 DEF Register, Active, ConfigInv, TypeOK
    <2>2. job[j].proc \in Processes /\ live'[job[j].proc] = c
      BY <2>1 DEF ConfigInv, Secured, TypeOK
    <2>3. Far(j) => Far(j)'
      BY <2>1, <2>2 DEF Far, Newest, IsLatest, Active, tables
    <2> QED BY <2>1, <2>3, StepEffect DEF EffectInv, StoredNumbered, tables
  <1> QED BY <1>1, <1>2, <1>3, <1>4, <1>5, <1>6, <1>7 DEF Apply

\* Jobs that end, and processes that die, take nothing back.
LEMMA EndEffect ==
  ASSUME ConfigInv, EffectInv, UNCHANGED <<tables, job, solo>>,
         \A j \in Jobs : pc'[j] \in {pc[j], "failed"},
         \A p \in Processes : live'[p] \in {live[p], None}
  PROVE  EffectInv'
  <1>1. \A j \in Jobs : Active(j)' => Active(j)
    BY DEF Active
  <1>2. ASSUME NEW j \in Jobs, Far(j)
        PROVE  Far(j)'
    BY <1>1, <1>2 DEF Far, Newest, IsLatest, tables
  <1>3. SoloFar'
    BY <1>1, <1>2 DEF EffectInv, SoloFar
  <1> QED BY <1>3 DEF EffectInv, StoredNumbered, tables

LEMMA NextEffect == ConfigInv /\ EffectInv /\ [Next]_vars => EffectInv'
  <1> SUFFICES ASSUME ConfigInv, EffectInv, [Next]_vars PROVE EffectInv'
    OBVIOUS
  <1>1. ASSUME NEW j \in Jobs, Fail(j)
        PROVE  EffectInv'
    BY <1>1, EndEffect DEF Fail, ConfigInv, TypeOK
  <1>2. ASSUME NEW p \in Processes, Crash(p)
        PROVE  EffectInv'
    BY <1>2, EndEffect DEF Crash, ConfigInv, TypeOK
  <1>3. CASE Terminated \/ UNCHANGED vars
    BY <1>3, EndEffect DEF Terminated, vars
  <1> QED BY <1>1, <1>2, <1>3, StartEffect, ApplyEffect DEF Next

LEMMA InitEffect == Init => EffectInv
  BY NoJobAssumption DEF Init, EffectInv, StoredNumbered, SoloFar

\* Together with ConfigInv it is inductive.
THEOREM EffectInvariance == Spec => []EffectInv
  BY ConfigInvariance, InitEffect, NextEffect, PTL DEF Spec

\* bootstrap.ts, admin.ts: whatever earlier jobs have left, an edit or a restart that no
\* other job overlapped leaves the databases as its artifact says, that artifact as the
\* latest stored one, and its process serving with it unless it has died since.
THEOREM ApplyRepairs == Spec => []ApplyTakesEffect
  <1>1. EffectInv => ApplyTakesEffect
    BY DEF EffectInv, SoloFar, Far, ApplyTakesEffect, Undisturbed, InEffect
  <1> QED BY <1>1, EffectInvariance, PTL
=============================================================================
