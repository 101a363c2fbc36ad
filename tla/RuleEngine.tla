----------------------------- MODULE RuleEngine -----------------------------
(***************************************************************************)
(* The rules that a transition sets off, in its transaction                *)
(* (services/rules.ts, runRulesForStateChangeTx).  Each call is a level:   *)
(* it loads the rules of its state once, from the shared database, and     *)
(* takes them in turn.  A rule that sets the state opens a level of its    *)
(* own, and is audited when that level has returned.                       *)
(*                                                                         *)
(* The case row is locked by the transaction.  The rules may be replaced   *)
(* under it, before any level; the transitions are one configuration's,    *)
(* as in CaseCommands (ConfigApply replaces them).                         *)
(***************************************************************************)
EXTENDS Integers, Sequences

CONSTANTS
  RuleIds,
  Conditions,        \* rule-types.ts, Condition
  Holds(_, _),       \* Holds(condition, row): evalCondition
  RuleTables,        \* what the shared database may hold, by (ordering, rule_id)
  MaxReconfigurations, \* bound: applies of a configuration during one transition
  MAX_CASCADE,
  States, Transitions, Fields, Values,
  None

\* Values are those a condition or a rule may name; in a row, booleans are 0 and 1.
Payload == UNION {[F -> Values] : F \in SUBSET Fields}
Normalize(v) == CASE v = "true" -> "1" [] v = "false" -> "0" [] OTHER -> v

Rule == [id: RuleIds, on: States \cup {None}, when: Conditions,
         type: {"set_state", "update_values", "create_operation", "catalog"},
         to: States \cup {None}, set: Payload]

Stored == {Normalize(v) : v \in Values}
Row == [state: States, fields: [Fields -> Stored \cup {None}]]

ASSUME RuleTablesAssumption == RuleTables \subseteq Seq(Rule)
ASSUME LongestAssumption == \E t \in RuleTables : \A u \in RuleTables : Len(u) <= Len(t)
ASSUME StatesAssumption == None \notin States /\ Transitions \subseteq States \X States
ASSUME CascadeAssumption == MAX_CASCADE \in Nat /\ MaxReconfigurations \in Nat
ASSUME ValuesAssumption == \A v \in Values : Normalize(v) \in Values
ASSUME ConditionsAssumption == \A c \in Conditions, row \in Row : Holds(c, row) \in BOOLEAN

VARIABLES
  rules,    \* the active rules of the registry
  applied,  \* how often they have been replaced
  writable, \* the fields the process's definition lets a rule update
  start,    \* the case row before the transition
  row,      \* the case row, as the transaction sees it
  stack,    \* the levels that are open, the first one the transition's
  log,      \* the operations the rules have appended
  audited,  \* history: the operations whose rule has a rule.execute record
  served,   \* history: the state changes whose rules were loaded, 0 the first
  outcome

vars == <<rules, applied, writable, start, row, stack, log, audited, served, outcome>>

\* A call for a state; its cause is the operation that set the state.
Level(state, cause) == [state |-> state, cause |-> cause, loaded |-> FALSE, todo |-> <<>>]

Top   == stack[Len(stack)]
Depth == Len(stack) - 1

AnyAllowed(from, to) == TRUE
Allowed(from, to) == <<from, to>> \in Transitions

Init ==
  /\ rules \in RuleTables /\ applied = 0
  /\ writable \in SUBSET Fields
  /\ start \in Row
  /\ \E s \in States : /\ Allowed(start.state, s)
                       /\ row = [start EXCEPT !.state = s]
                       /\ stack = <<Level(s, 0)>>
  /\ log = <<>> /\ audited = {} /\ served = {}
  /\ outcome = "running"

-----------------------------------------------------------------------------
(* A level begins. *)

Running == outcome = "running"

Loading == Running /\ ~Top.loaded

Stop(how) ==
  /\ outcome' = how
  /\ UNCHANGED <<rules, applied, writable, start, row, stack, log, audited, served>>

NeverTooDeep == FALSE
TooDeep == Depth > MAX_CASCADE

\* loadRules: SELECT ... WHERE on_to_state IS NULL OR on_to_state = ?; a recursive
\* function, which the provers can unfold, does what SelectSeq would.
Matching(state) ==
  LET Among[i \in 0 .. Len(rules)] ==
        IF i = 0 THEN <<>>
        ELSE IF rules[i].on \in {None, state} THEN Append(Among[i - 1], rules[i])
        ELSE Among[i - 1]
  IN  Among[Len(rules)]

LoadRules ==
  /\ Loading /\ ~TooDeep
  /\ stack' = [stack EXCEPT ![Len(stack)] =
                 [@ EXCEPT !.loaded = TRUE, !.todo = Matching(Top.state)]]
  /\ served' = served \cup {Top.cause}
  /\ UNCHANGED <<rules, applied, writable, start, row, log, audited, outcome>>

\* RULE_CASCADE_LIMIT is not an IllegalTransitionError: every level rethrows it.
CutLevel ==
  /\ stack' = [stack EXCEPT ![Len(stack)].loaded = TRUE]
  /\ UNCHANGED <<rules, applied, writable, start, row, log, audited, served, outcome>>
CutCascade == Stop("rolled back")

CascadeLimit ==
  /\ Loading /\ TooDeep
  /\ CutCascade

-----------------------------------------------------------------------------
(* The level takes its next rule. *)

Working == Running /\ Top.loaded /\ Top.todo # <<>>
Current == Head(Top.todo)

Acting(type) == Working /\ Holds(Current.when, row) /\ Current.type = type

\* The rule is done with.
NextRule(levels) == [levels EXCEPT ![Len(levels)].todo = Tail(@)]

SkipRule ==
  /\ Working /\ ~Holds(Current.when, row)
  /\ stack' = NextRule(stack)
  /\ UNCHANGED <<rules, applied, writable, start, row, log, audited, served, outcome>>

\* appendOperation, by the rule.
Appended(type, from, to, set) ==
  Append(log, [rule |-> Current.id, type |-> type, from |-> from, to |-> to, set |-> set])

NoFields == [f \in {} |-> None]

\* An action that is over at once: its operation, and its rule.execute record.
Act(newRow, type, set) ==
  /\ row' = newRow
  /\ log' = Appended(type, None, None, set)
  /\ audited' = audited \cup {Len(log) + 1}
  /\ stack' = NextRule(stack)
  /\ UNCHANGED <<rules, applied, writable, start, served, outcome>>

\* update_values: every field must be writable in the process's definition.
RawSet(set) == set
StoredSet(set) == [f \in DOMAIN set |-> Normalize(set[f])]

UpdateValues ==
  LET set == StoredSet(Current.set) IN
  /\ Acting("update_values") /\ DOMAIN set \subseteq writable
  /\ Act([row EXCEPT !.fields = [f \in Fields |-> IF f \in DOMAIN set THEN set[f] ELSE @[f]]],
         "rule_update_values", set)

NotWritable ==
  /\ Acting("update_values") /\ ~(DOMAIN Current.set \subseteq writable)
  /\ Stop("rolled back")

CreateOperation ==
  /\ Acting("create_operation")
  /\ Act(row, "rule_operation", NoFields)

\* A fixed catalog action: recorded, and handed to the outbox.
CatalogAction ==
  /\ Acting("catalog")
  /\ Act(row, "rule_action", NoFields)

\* set_state: changeStateTx, and then a level for the new state.
SetState ==
  /\ Acting("set_state") /\ Allowed(row.state, Current.to)
  /\ row' = [row EXCEPT !.state = Current.to]
  /\ log' = Appended("state_change", row.state, Current.to, NoFields)
  /\ stack' = Append(stack, Level(Current.to, Len(log) + 1))
  /\ UNCHANGED <<rules, applied, writable, start, audited, served, outcome>>

SkipIllegal ==
  /\ Acting("set_state") /\ ~Allowed(row.state, Current.to)
  /\ Act(row, "skipped", NoFields)

-----------------------------------------------------------------------------
(* A level has no rule left: the rule that opened it is audited and done. *)

Finished == Running /\ Top.loaded /\ Top.todo = <<>>

Forgotten(level) == audited
AuditedBy(level) == audited \cup {level.cause}

Return ==
  /\ Finished /\ Depth > 0
  /\ audited' = AuditedBy(Top)
  /\ stack' = NextRule(SubSeq(stack, 1, Depth))
  /\ UNCHANGED <<rules, applied, writable, start, row, log, served, outcome>>

Commit == Finished /\ Depth = 0 /\ Stop("committed")

\* Any statement may fail.
Fail == Running /\ Stop("rolled back")

\* applyRegistryConfig replaces the registry's rules while the transition runs.
Reconfigure ==
  /\ Running /\ applied < MaxReconfigurations
  /\ applied' = applied + 1
  /\ rules' \in RuleTables
  /\ UNCHANGED <<writable, start, row, stack, log, audited, served, outcome>>

Terminated == ~Running /\ UNCHANGED vars

Next ==
  \/ LoadRules \/ CascadeLimit \/ SkipRule
  \/ UpdateValues \/ NotWritable \/ CreateOperation \/ CatalogAction
  \/ SetState \/ SkipIllegal \/ Return
  \/ Commit \/ Fail \/ Reconfigure \/ Terminated

Spec == Init /\ [][Next]_vars
=============================================================================
