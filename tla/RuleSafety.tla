----------------------------- MODULE RuleSafety -----------------------------
(***************************************************************************)
(* What a transition may rely on of the rules it sets off, for every set   *)
(* of rules, and however the rules change meanwhile.                       *)
(***************************************************************************)
EXTENDS RuleEngine, FiniteSets

LogTypes == {"state_change", "rule_update_values", "rule_operation", "rule_action", "skipped"}
LogEntry == [rule: RuleIds, type: LogTypes, from: States \cup {None}, to: States \cup {None},
             set: Payload]

\* The types of the state variables; a column of the case row holds what SQL stores
\* for a value, never a boolean, whatever rules.ts:129 was given.
TypeOK ==
  /\ rules \in Seq(Rule) /\ applied \in 0 .. MaxReconfigurations
  /\ writable \subseteq Fields
  /\ start \in Row /\ row \in Row
  /\ stack \in Seq([state: States, cause: Nat, loaded: BOOLEAN, todo: Seq(Rule)])
  /\ log \in Seq(LogEntry)
  /\ audited \subseteq Nat /\ served \subseteq Nat
  /\ outcome \in {"running", "committed", "rolled back"}

Committed == outcome = "committed"
Changes == {i \in 1 .. Len(log) : log[i].type = "state_change"}

\* rules.ts:10, "nor escape the audit trail": when the transition commits, every
\* operation a rule has appended has the rule.execute record of its rule, and
\* there is no record without an operation, however levels nest.
EveryActionAudited == Committed => audited = 1 .. Len(log)

\* rules.ts:9, "neither bypass the allowed-transition rule": the states the rules
\* have put the case through are a chain of configured transitions, from the state
\* the transition led to, to the one the case is in.
Latest(S) == CHOOSE i \in S : \A k \in S : k <= i
StateBefore(i) ==
  LET earlier == {k \in Changes : k < i} IN
  IF earlier = {} THEN stack[1].state ELSE log[Latest(earlier)].to

StatesFollowTransitions ==
  /\ \A i \in Changes : log[i].from = StateBefore(i) /\ <<log[i].from, log[i].to>> \in Transitions
  /\ row.state = StateBefore(Len(log) + 1)

\* USER_STORIES.md:183, "the transition and all cascading rule actions succeed or
\* roll back atomically": a transition that commits has run the rules of every state
\* the case went through; one that would cascade too deep does not commit.
CascadeComplete == Committed => served = {0} \cup Changes

\* rules.ts:12, "to prevent infinite loops": the operations a transition can cause
\* are bounded by the number of rules a level may load, however the rules set each
\* other off.
Longest == CHOOSE n \in {Len(t) : t \in RuleTables} : \A t \in RuleTables : Len(t) <= n
Loadable == IF applied = 0 THEN Len(rules) ELSE Longest
WorkLimit(n) ==
  LET Work[d \in 0 .. MAX_CASCADE + 1] == IF d = 0 THEN 0 ELSE n * (1 + Work[d - 1])
  IN  Work

WorkBounded == Len(log) <= WorkLimit(Loadable)[MAX_CASCADE + 1]

-----------------------------------------------------------------------------
(* The inductive invariant of RuleProofs. *)

IsSequence(s) == s \in Seq({s[i] : i \in 1 .. Len(s)})
IsLevel(level) == level = [state |-> level.state, cause |-> level.cause,
                           loaded |-> level.loaded, todo |-> level.todo]
Shaped ==
  /\ IsSequence(log)
  /\ IsSequence(stack) /\ stack # <<>> /\ \A k \in 1 .. Len(stack) : IsLevel(stack[k])
  /\ row = [state |-> row.state, fields |-> row.fields]

\* What a level that is still open owes: the record of the rule that opened it, and its
\* own rules.
Causes(K) == {stack[k].cause : k \in K}
AuditOwed == audited \cup Causes(2 .. Len(stack)) = 1 .. Len(log)
RulesOwed ==
  served \cup Causes({k \in 1 .. Len(stack) : ~stack[k].loaded}) = {0} \cup Changes

NothingOpen == Committed => Len(stack) = 1 /\ stack[1].loaded

\* The state a change started from is that of the latest change before it.
LatestExists ==
  \A i \in 1 .. Len(log) + 1 :
    LET earlier == {k \in Changes : k < i} IN
    earlier # {} => \E m \in earlier : \A k \in earlier : k <= m

\* Why a nested level loses nothing: what is not audited or not loaded yet is on the stack.
CascadeInv ==
  Shaped /\ AuditOwed /\ RulesOwed /\ NothingOpen /\ LatestExists /\ StatesFollowTransitions

\* What level k has logged so far, but for the rule it has in hand; and what it may have,
\* of its n rules: each an operation, and the work of the level it may have opened.
LoggedBy(k) ==
  (IF k = Len(stack) THEN Len(log) ELSE stack[k + 1].cause - 1) - stack[k].cause
TakenBy(k, n) == (n - Len(stack[k].todo)) * (1 + WorkLimit(n)[MAX_CASCADE + 1 - k])

\* Why the work is bounded, and does not grow with a table that replaces another: a level
\* answers for the rules it has taken of those it loaded, and the levels are so many.
WorkInv ==
  /\ rules \in RuleTables
  /\ Len(stack) <= MAX_CASCADE + 2 /\ stack[1].cause = 0
  /\ \A k \in 1 .. Len(stack) :
       /\ k < Len(stack) => stack[k].loaded /\ stack[k].todo # <<>>
       /\ ~stack[k].loaded => LoggedBy(k) = 0
       /\ stack[k].loaded => /\ k <= MAX_CASCADE + 1 /\ Len(stack[k].todo) <= Loadable
                             /\ LoggedBy(k) <= TakenBy(k, Loadable)

RuleInv == TypeOK /\ CascadeInv /\ WorkInv

-----------------------------------------------------------------------------
(* The engine is the part of CaseCommands that runs the rules: to one      *)
(* request, whose transition is written and recorded, its steps are rule   *)
(* actions, its commit and its failure.                                    *)

CaseRow(r, version, nextOp) ==
  [year |-> "y", number |-> 1, state |-> r.state, fields |-> r.fields,
   version |-> version, nextOp |-> nextOp, published |-> FALSE]

\* The UPDATEs of the case row so far, the transition's among them.
Updated(o) == o.type = "state_change" \/ DOMAIN o.set # {}
Updates == 1 + Cardinality({i \in 1 .. Len(log) : Updated(log[i])})

LoggedAs(type) ==
  CASE type \in {"rule_operation", "skipped"} -> "rule_action" [] OTHER -> type

Request == "r"
Transition == [case |-> "c", id |-> 2, type |-> "state_change", from |-> start.state,
               to |-> stack[1].state, by |-> Request]
RuleOperation(i) == [case |-> "c", id |-> i + 2, type |-> LoggedAs(log[i].type),
                     from |-> log[i].from, to |-> log[i].to, by |-> Request]
Event(name) == [by |-> Request, case |-> "c", name |-> name]

CaseBefore == CaseRow(start, 1, 2)
CaseNow == CaseRow(row, 1 + Updates, Len(log) + 3)
NowLogged == {Transition} \cup {RuleOperation(i) : i \in 1 .. Len(log)}
NowAudited == {Event("case.transition")} \cup (IF log = <<>> THEN {} ELSE {Event("rule.execute")})
NowEmitted == {Event("case.state.changed")}
  \cup (IF \E i \in 1 .. Len(log) : log[i].type = "rule_action" THEN {Event("rule.action")} ELSE {})

NoWork == [case |-> None, pid |-> None, row |-> None, ops |-> {}, audit |-> {},
           outbox |-> {}, pend |-> None, projects |-> FALSE, proj |-> None,
           shown |-> {}, fired |-> 0]
Written(r, ops, recorded, emitted, fired) ==
  [case |-> "c", pid |-> None, row |-> r, ops |-> ops, audit |-> recorded, outbox |-> emitted,
   pend |-> None, projects |-> FALSE, proj |-> None, shown |-> {}, fired |-> fired]
NowWritten == Written(CaseNow, NowLogged, NowAudited, NowEmitted, Len(log))

One(x) == [r \in {Request} |-> x]

\* The database, and the request, that CaseCommands has.
Installed(writes) == IF Committed THEN writes ELSE {}
CasesNow == [c \in {"c"} |-> IF Committed THEN CaseNow ELSE CaseBefore]
LocksNow == [x \in {"c", "y"} |-> IF Running /\ x = "c" THEN Request ELSE None]
PcNow == One(IF Running THEN "recorded" ELSE "done")
CmdNow == One([kind |-> "transition", case |-> "c", to |-> stack[1].state])
SeenNow == One(IF Running THEN CaseBefore ELSE None)
WorkNow == One(IF Running THEN NowWritten ELSE NoWork)
AnswerNow == One(CASE Running -> None [] Committed -> "ok" [] OTHER -> "error")

Case == INSTANCE CaseCommands WITH
  Requests <- {Request}, CaseKeys <- {"c"}, PendingIds <- {}, Years <- {"y"},
  InitialState <- CHOOSE s \in States : TRUE, Commands <- {},
  MaxRuleActions <- WorkLimit(Longest)[MAX_CASCADE + 1],
  counter <- [y \in {"y"} |-> 1], cases <- CasesNow,
  operations <- Installed(NowLogged), audit <- Installed(NowAudited),
  outbox <- Installed(NowEmitted), pending <- [p \in {} |-> None],
  projection <- [c \in {"c"} |-> None], shownOps <- {}, lock <- LocksNow,
  pc <- PcNow, cmd <- CmdNow, seen <- SeenNow, work <- WorkNow, answer <- AnswerNow

ASSUME NoCaseAssumption == None \notin Case!Row

\* rules.ts: what the rules do in the transaction of a transition are rule actions of
\* CaseCommands, each with its operation and its events, whatever the rules are.
RulesActAsInCommands ==
  [][\/ Case!RuleSetState(Request) \/ Case!RuleUpdateValues(Request) \/ Case!RuleRecord(Request)
     \/ Case!Commit(Request) \/ Case!Fail(Request)]_Case!vars
=============================================================================
