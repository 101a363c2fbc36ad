---------------------------- MODULE LedgerProofs ----------------------------
(***************************************************************************)
(* Proofs, for every number of requests, cases, submissions and states,    *)
(* of what the requests do to each other: records and answers agree, a     *)
(* submission is decided once, a publication shows one moment of its       *)
(* case, and the commands take effect one at a time.                       *)
(***************************************************************************)
EXTENDS CaseProofs

(***************************************************************************)
(* The records of a request commit or roll back together with what the     *)
(* client is told, and a submission is decided once.                       *)
(***************************************************************************)

Trail(r) == Truthful(r) /\ HoldsBack(r) /\ AboutToDecide(r)

\* Who has no record anywhere has left no traces.
LEMMA UntracedHasNone ==
  ASSUME NEW r, Untraced(r)
  PROVE  Traces(r) = NoTraces
  BY DEF Untraced, Traces, NoTraces

\* An answered request is not touched any more, nor one whose records are not committed.
LEMMA TracesKept ==
  ASSUME NEW q, cmd'[q] = cmd[q], answer'[q] = answer[q],
         \A x \in (operations' \ operations) \cup (audit' \ audit) \cup (outbox' \ outbox) : x.by # q,
         operations \subseteq operations', audit \subseteq audit', outbox \subseteq outbox'
  PROVE  Truthful(q)' = Truthful(q) /\ Untraced(q)' = Untraced(q)
  <1>1. /\ {o \in operations' : o.by = q} = {o \in operations : o.by = q}
        /\ {e \in audit' : e.by = q} = {e \in audit : e.by = q}
        /\ {e \in outbox' : e.by = q} = {e \in outbox : e.by = q}
    OBVIOUS
  <1>2. Traces(q)' = Traces(q)
    BY <1>1 DEF Traces
  <1>3. FullTraces(q)' = FullTraces(q)
    BY <1>2 DEF FullTraces, LoggedType, Kind
  <1>4. Truthful(q)' = Truthful(q)
    BY <1>2, <1>3 DEF Truthful, NoTraces
  <1>5. Untraced(q)' = Untraced(q)
    BY <1>1 DEF Untraced
  <1> QED BY <1>4, <1>5

-----------------------------------------------------------------------------
(* Statements before the commit. *)

LEMMA ApartKeepsTrail ==
  ASSUME TrailInv, NEW r \in Requests, pc[r] # "done", Apart(r), CaseInv', Trail(r)'
  PROVE  TrailInv'
  <1>1. /\ UNCHANGED <<operations, audit, outbox, pending>>
        /\ \A q \in Requests : Trail(q)
        /\ Untraced(r) /\ DecidedOnce /\ DecisionsKnown
    BY DEF Apart, tables, TrailInv, Trail, AnswerMatchesTraces, HoldsBack
  <1>2. ASSUME NEW q \in Requests \ {r}
        PROVE  /\ pc'[q] = pc[q] /\ work'[q] = work[q] /\ cmd'[q] = cmd[q] /\ answer'[q] = answer[q]
               /\ Kind(q)' = Kind(q)
    BY <1>2 DEF Apart, OthersStand, Kind
  <1>3. ASSUME NEW q \in Requests \ {r}
        PROVE  Trail(q)'
    <2>1. Truthful(q)' /\ Untraced(q)' = Untraced(q)
      BY <1>1, <1>2, <1>3, TracesKept DEF Trail
    <2>2. HoldsBack(q)'
      BY <1>1, <1>2, <1>3, <2>1 DEF Trail, HoldsBack, LoggedType, AuditNames, OutboxNames
    <2>3. AboutToDecide(q)'
      BY <1>1, <1>2, <1>3 DEF Trail, AboutToDecide, Active, StillPending, Verdict
    <2> QED BY <2>1, <2>2, <2>3 DEF Trail
  <1>4. ASSUME NEW q \in Requests, NEW p
        PROVE  Decided(q, p)' = Decided(q, p)
    <2>1. CASE q = r
      BY <1>1, <2>1 DEF Decided, Untraced
    <2>2. CASE q # r
      BY <1>1, <1>2, <2>2 DEF Decided
    <2> QED BY <2>1, <2>2
  <1>5. DecisionsKnown'
    BY <1>1, <1>4 DEF DecisionsKnown
  <1>6. DecidedOnce'
    <2> SUFFICES ASSUME NEW p \in PendingIds, pending[p] # None
                 PROVE  LET D == {q \in Requests : Decided(q, p)'} IN
                        IF pending[p].status = "pending" THEN D = {}
                        ELSE \E q \in D : /\ D = {q}
                               /\ Kind(q)' = (IF pending[p].status = "approved" THEN "approve"
                                                                              ELSE "reject")
      BY <1>1 DEF DecidedOnce
    <2>1. {q \in Requests : Decided(q, p)'} = {q \in Requests : Decided(q, p)}
      BY <1>4
    <2>2. \A q \in Requests : Decided(q, p) => q # r
      BY <1>1 DEF Decided, Untraced
    <2> QED BY <1>1, <1>2, <2>1, <2>2 DEF DecidedOnce
  <1> QED BY <1>1, <1>3, <1>5, <1>6 DEF TrailInv, Trail, AnswerMatchesTraces

\* A statement inside the transaction keeps what the request holds back to itself.
LEMMA StatementKeepsTrail ==
  ASSUME TrailInv, CaseInv', NEW r \in Requests, Active(r), Apart(r), UNCHANGED <<cmd, answer>>,
         (Active(r))', pc'[r] # "ready",
         \A x \in work'[r].ops \cup work'[r].audit \cup work'[r].outbox : x.by = r,
         pc'[r] \in {"logged", "recorded"} => \E o \in work'[r].ops : o.type = LoggedType(r),
         pc'[r] = "recorded" =>
           /\ AuditNames[Kind(r)] \subseteq {e.name : e \in work'[r].audit}
           /\ OutboxNames[Kind(r)] \subseteq {e.name : e \in work'[r].outbox},
         Kind(r) \in Decisions =>
           /\ work'[r].pid = cmd[r].pid
           /\ StillPending(work'[r].pid) /\ work'[r].pend.status = Verdict(r),
         Kind(r) = "stage" => work'[r].pend.status = "pending"
  PROVE  TrailInv'
  <1>1. /\ UNCHANGED <<operations, audit, outbox, pending>> /\ Kind(r)' = Kind(r)
        /\ pc[r] # "done" /\ Truthful(r) /\ HoldsBack(r)
    BY DEF Apart, tables, Kind, TrailInv, AnswerMatchesTraces, Active
  <1>2. Truthful(r)' /\ Untraced(r)' /\ answer'[r] = None
    BY <1>1, TracesKept DEF HoldsBack
  <1>3. HoldsBack(r)'
    BY <1>1, <1>2 DEF HoldsBack, LoggedType, AuditNames, OutboxNames
  <1>4. AboutToDecide(r)'
    BY <1>1 DEF AboutToDecide, StillPending, Verdict
  <1> QED BY <1>1, <1>2, <1>3, <1>4, ApartKeepsTrail DEF Trail

LEMMA ReceiveTrail ==
  ASSUME TrailInv, CaseInv', NEW r \in Requests,
         ReceiveCreate(r) \/ ReceiveOnCase(r) \/ ReceiveDecision(r)
  PROVE  TrailInv'
  <1>1. TypeOK /\ Truthful(r) /\ HoldsBack(r)
    BY DEF TrailInv, CaseInv, AnswerMatchesTraces
  <1>2. PICK k, row, w :
          /\ Accept(r, k, row, w)
          /\ w.ops = {} /\ w.audit = {} /\ w.outbox = {}
          /\ k.kind \in Decisions => w.pid = k.pid
    <2>1. CASE ReceiveCreate(r)
      BY <2>1 DEF ReceiveCreate, NoWork, Decisions
    <2>2. CASE ReceiveOnCase(r)
      BY <2>2 DEF ReceiveOnCase, NoWork
    <2>3. CASE ReceiveDecision(r)
      <3> DEFINE w(k) == [NoWork EXCEPT !.case = pending[k.pid].case, !.pid = k.pid,
                                        !.pend = pending[k.pid]]
      <3>1. PICK k \in Commands : Accept(r, k, cases[pending[k.pid].case], w(k))
        BY <2>3 DEF ReceiveDecision
      <3>2. w(k).ops = {} /\ w(k).audit = {} /\ w(k).outbox = {} /\ w(k).pid = k.pid
        BY DEF NoWork
      <3> HIDE DEF w
      <3> QED BY <3>1, <3>2
    <2> QED BY <2>1, <2>2, <2>3
  <1>3. /\ Apart(r) /\ UNCHANGED answer /\ pc[r] = "idle"
        /\ pc'[r] = "ready" /\ work'[r] = w /\ cmd'[r] = k
    BY <1>1, <1>2, AcceptApart DEF Accept
  <1>4. UNCHANGED <<operations, audit, outbox, pending>>
    BY <1>3 DEF Apart, tables
  <1>5. Untraced(r) /\ answer[r] = None
    BY <1>1, <1>3 DEF HoldsBack
  <1>6. Untraced(r)' /\ answer'[r] = None
    BY <1>3, <1>4, <1>5 DEF Untraced
  <1>7. Truthful(r)'
    <2>1. (Traces(r) = NoTraces)'
      BY <1>4, <1>5, UntracedHasNone DEF Traces, NoTraces
    <2> QED BY <1>6, <2>1, NoAnswerAssumption DEF Truthful
  <1>8. HoldsBack(r)'
    BY <1>2, <1>3, <1>6 DEF HoldsBack
  <1>9. AboutToDecide(r)'
    BY <1>2, <1>3 DEF AboutToDecide, Kind
  <1> QED BY <1>3, <1>7, <1>8, <1>9, ApartKeepsTrail DEF Trail

\* A request that is not answered "ok" has left nothing.
LEMMA EndTrail ==
  ASSUME TrailInv, CaseInv', NEW r \in Requests,
         \/ Refuse(r) \/ DecisionConflict(r) \/ RejectTransition(r) \/ UpdateConflict(r)
         \/ RejectSelection(r) \/ Fail(r)
  PROVE  TrailInv'
  <1>1. TypeOK /\ HoldsBack(r)
    BY DEF TrailInv, CaseInv
  <1>2. pc[r] # "done" /\ UNCHANGED tables /\ \E told : told # "ok" /\ Finish(r, told)
    BY DEF Refuse, DecisionConflict, RejectTransition, UpdateConflict, RejectSelection, Fail,
           ReadyToUpdate, Abandon, Undo, Discard
  <1>3. Apart(r) /\ pc'[r] = "done" /\ work'[r] = NoWork /\ answer'[r] # "ok"
    BY <1>1, <1>2, FinishApart
  <1>4. UNCHANGED <<operations, audit, outbox>>
    BY <1>2 DEF tables
  <1>5. (Traces(r) = NoTraces)'
    BY <1>1, <1>2, <1>4, UntracedHasNone DEF HoldsBack, Traces, NoTraces
  <1>6. Truthful(r)'
    BY <1>3, <1>5 DEF Truthful
  <1>7. HoldsBack(r)' /\ AboutToDecide(r)'
    BY <1>3 DEF HoldsBack, AboutToDecide, Active, NoWork
  <1> QED BY <1>2, <1>3, <1>6, <1>7, ApartKeepsTrail DEF Trail

\* A submission is staged as waiting, and decided while it waits.
LEMMA SubmissionTrail ==
  ASSUME TrailInv, CaseInv', NEW r \in Requests, InsertPending(r) \/ DecidePending(r)
  PROVE  TrailInv'
  <1>1. Active(r) /\ pc[r] = "ready" /\ UNCHANGED seen
    BY DEF InsertPending, DecidePending, Active
  <1>2. TypeOK /\ work[r] \in Work /\ HoldsBack(r) /\ AboutToDecide(r)
    BY <1>1, ActorParts DEF TrailInv
  <1>3. PICK w :
          /\ Goto(r, "open", w)
          /\ w.ops = work[r].ops /\ w.audit = work[r].audit /\ w.outbox = work[r].outbox
          /\ Kind(r) \in Decisions =>
               /\ w.pid = cmd[r].pid /\ StillPending(cmd[r].pid)
               /\ w.pend.status = Verdict(r)
          /\ Kind(r) = "stage" => w.pend.status = "pending"
    <2>1. CASE InsertPending(r)
      <3>1. PICK p \in PendingIds :
              Goto(r, "open", [work[r] EXCEPT !.pid = p,
                                 !.pend = [case |-> work[r].case, set |-> cmd[r].set,
                                           status |-> "pending"]])
        BY <2>1 DEF InsertPending
      <3> DEFINE pend == [case |-> work[r].case, set |-> cmd[r].set, status |-> "pending"]
                 w == [work[r] EXCEPT !.pid = p, !.pend = pend]
      <3>2. pend.status = "pending" /\ Kind(r) = "stage" /\ Goto(r, "open", w)
        BY <2>1, <3>1 DEF InsertPending
      <3> HIDE DEF pend
      <3>3. /\ w.ops = work[r].ops /\ w.audit = work[r].audit /\ w.outbox = work[r].outbox
            /\ w.pend = pend
        BY <1>2 DEF Work
      <3> HIDE DEF w
      <3> QED BY <3>2, <3>3 DEF Decisions
    <2>2. CASE DecidePending(r)
      <3> DEFINE pend == [work[r].pend EXCEPT !.status = Verdict(r)]
                 w == [work[r] EXCEPT !.pend = pend]
      <3>1. /\ Kind(r) \in Decisions /\ StillPending(work[r].pid)
            /\ work[r].pid = cmd[r].pid /\ work[r].pend \in PendingRow
        BY <1>1, <1>2, <2>2, ActorParts DEF DecidePending, AboutToDecide, TrailInv
      <3>2. Goto(r, "open", w)
        BY <2>2 DEF DecidePending
      <3>3. pend.status = Verdict(r)
        BY <3>1 DEF PendingRow
      <3> HIDE DEF pend
      <3>4. /\ w.ops = work[r].ops /\ w.audit = work[r].audit /\ w.outbox = work[r].outbox
            /\ w.pid = work[r].pid /\ w.pend = pend
        BY <1>2 DEF Work
      <3> HIDE DEF w
      <3> QED BY <3>1, <3>2, <3>3, <3>4 DEF Decisions
    <2> QED BY <2>1, <2>2
  <1>4. /\ Apart(r) /\ UNCHANGED <<cmd, answer>> /\ pc'[r] = "open" /\ work'[r] = w
    BY <1>1, <1>2, <1>3, GotoApart
  <1>5. (Active(r))'
    BY <1>4 DEF Active
  <1> QED BY <1>1, <1>2, <1>3, <1>4, <1>5, StatementKeepsTrail DEF HoldsBack

\* The others do not touch the submission.
LEMMA WorkKeepsTrail ==
  ASSUME TrailInv, CaseInv', NEW r \in Requests, Active(r), Apart(r), UNCHANGED <<cmd, answer>>,
         (Active(r))', pc'[r] # "ready",
         Kind(r) \in Decisions \cup {"stage"} => pc[r] # "ready",
         work'[r].pid = work[r].pid, work'[r].pend = work[r].pend,
         \A x \in work'[r].ops \cup work'[r].audit \cup work'[r].outbox : x.by = r,
         pc'[r] \in {"logged", "recorded"} => \E o \in work'[r].ops : o.type = LoggedType(r),
         pc'[r] = "recorded" =>
           /\ AuditNames[Kind(r)] \subseteq {e.name : e \in work'[r].audit}
           /\ OutboxNames[Kind(r)] \subseteq {e.name : e \in work'[r].outbox}
  PROVE  TrailInv'
  <1>1. AboutToDecide(r)
    BY DEF TrailInv
  <1> QED BY <1>1, StatementKeepsTrail DEF AboutToDecide

\* Reading the version, and writing the case row or its projection.
LEMMA RowTrail ==
  ASSUME TrailInv, CaseInv', NEW r \in Requests,
         ReadVersion(r) \/ AllocateNumber(r) \/ UpdateCase(r) \/ Project(r)
  PROVE  TrailInv'
  <1>1. /\ Active(r) /\ (Kind(r) \in Decisions \cup {"stage"} => pc[r] # "ready")
    BY DEF ReadVersion, AllocateNumber, UpdateCase, Project, AtEntry, ReadyToUpdate, Active,
           Decisions, Publishings
  <1>2. TypeOK /\ work[r] \in Work /\ HoldsBack(r)
    BY <1>1, ActorParts DEF TrailInv
  <1>3. /\ Apart(r) /\ UNCHANGED <<cmd, answer>> /\ pc'[r] \in {"checked", "held", "projected"}
        /\ work'[r].pid = work[r].pid /\ work'[r].pend = work[r].pend
        /\ work'[r].ops = work[r].ops /\ work'[r].audit = work[r].audit
        /\ work'[r].outbox = work[r].outbox
    <2>1. CASE ReadVersion(r)
      BY <1>2, <2>1, ReadVersionApart
    <2>2. CASE AllocateNumber(r)
      <3> DEFINE row == NewRow(cmd[r], counter[cmd[r].year] + 1)
                 w(c) == [work[r] EXCEPT !.case = c, !.row = row]
      <3>1. UNCHANGED seen /\ \E c \in CaseKeys : Goto(r, "held", w(c))
        BY <2>2 DEF AllocateNumber
      <3> HIDE DEF row
      <3>2. \A c : /\ w(c).pid = work[r].pid /\ w(c).pend = work[r].pend
                   /\ w(c).ops = work[r].ops /\ w(c).audit = work[r].audit
                   /\ w(c).outbox = work[r].outbox
        BY <1>2 DEF Work
      <3> HIDE DEF w
      <3> QED BY <1>2, <3>1, <3>2, GotoApart
    <2>3. CASE UpdateCase(r)
      <3> DEFINE w == [work[r] EXCEPT !.row = Updated(r)]
      <3>1. UNCHANGED seen /\ Goto(r, "held", w)
        BY <2>3 DEF UpdateCase
      <3>2. /\ w.pid = work[r].pid /\ w.pend = work[r].pend
            /\ w.ops = work[r].ops /\ w.audit = work[r].audit /\ w.outbox = work[r].outbox
        BY <1>2 DEF Work
      <3> HIDE DEF w
      <3> QED BY <1>2, <3>1, <3>2, GotoApart
    <2>4. CASE Project(r)
      <3> DEFINE proj == [state |-> seen[r].state,
                          fields |-> [f \in cmd[r].pick |-> work[r].row.fields[f]]]
                 v == [work[r] EXCEPT !.projects = TRUE, !.shown = cmd[r].ops, !.proj = proj]
                 w == [work[r] EXCEPT !.projects = TRUE]
      <3>1. UNCHANGED seen /\ (Goto(r, "projected", v) \/ Goto(r, "projected", w))
        BY <2>4 DEF Project
      <3> HIDE DEF proj
      <3>2. /\ v.pid = work[r].pid /\ v.pend = work[r].pend
            /\ v.ops = work[r].ops /\ v.audit = work[r].audit /\ v.outbox = work[r].outbox
        BY <1>2 DEF Work
      <3>3. /\ w.pid = work[r].pid /\ w.pend = work[r].pend
            /\ w.ops = work[r].ops /\ w.audit = work[r].audit /\ w.outbox = work[r].outbox
        BY <1>2 DEF Work
      <3> HIDE DEF v, w
      <3> QED BY <1>2, <3>1, <3>2, <3>3, GotoApart
    <2> QED BY <2>1, <2>2, <2>3, <2>4
  <1>4. (Active(r))'
    BY <1>3 DEF Active
  <1> QED BY <1>1, <1>2, <1>3, <1>4, WorkKeepsTrail DEF HoldsBack

\* Its operation is of the type the answer promises.
LEMMA AppendOperationTrail ==
  ASSUME TrailInv, CaseInv', NEW r \in Requests, AppendOperation(r)
  PROVE  TrailInv'
  <1> DEFINE o == LoggedOperation(r)
             row == [CaseRow(r) EXCEPT !.nextOp = @ + 1]
             w == [work[r] EXCEPT !.row = row, !.ops = @ \cup {o}]
  <1>1. ReadyToLog(r) /\ UNCHANGED seen /\ Goto(r, "logged", w)
    BY DEF AppendOperation
  <1>2. Active(r) /\ (Kind(r) \in Decisions \cup {"stage"} => pc[r] # "ready")
    BY <1>1 DEF ReadyToLog, AtEntry, Active
  <1>3. TypeOK /\ work[r] \in Work /\ HoldsBack(r)
    BY <1>2, ActorParts DEF TrailInv
  <1>4. o.by = r /\ o.type = LoggedType(r)
    BY DEF LoggedOperation
  <1> HIDE DEF o, row
  <1>5. /\ w.ops = work[r].ops \cup {o} /\ w.audit = work[r].audit /\ w.outbox = work[r].outbox
        /\ w.pid = work[r].pid /\ w.pend = work[r].pend
    BY <1>3 DEF Work
  <1> HIDE DEF w
  <1>6. Apart(r) /\ UNCHANGED <<cmd, answer>> /\ pc'[r] = "logged" /\ work'[r] = w
    BY <1>1, <1>3, GotoApart
  <1>7. (Active(r))'
    BY <1>6 DEF Active
  <1> QED BY <1>2, <1>3, <1>4, <1>5, <1>6, <1>7, WorkKeepsTrail DEF HoldsBack

\* Its events are those of the command.
LEMMA WriteTrailTrail ==
  ASSUME TrailInv, CaseInv', NEW r \in Requests, WriteTrail(r)
  PROVE  TrailInv'
  <1> DEFINE a == Events(r, AuditNames[Kind(r)])
             b == Events(r, OutboxNames[Kind(r)])
             w == [work[r] EXCEPT !.audit = a, !.outbox = b]
  <1>1. /\ Active(r) /\ pc[r] = "logged" /\ UNCHANGED seen /\ Goto(r, "recorded", w)
    BY DEF WriteTrail, Active
  <1>2. TypeOK /\ work[r] \in Work /\ HoldsBack(r)
    BY <1>1, ActorParts DEF TrailInv
  <1>3. /\ \A x \in a \cup b : x.by = r
        /\ AuditNames[Kind(r)] \subseteq {e.name : e \in a}
        /\ OutboxNames[Kind(r)] \subseteq {e.name : e \in b}
    <2>1. ASSUME NEW names
          PROVE  /\ \A x \in Events(r, names) : x.by = r
                 /\ names \subseteq {e.name : e \in Events(r, names)}
      <3>1. \A x \in Events(r, names) : x.by = r
        BY DEF Events
      <3>2. ASSUME NEW n \in names
            PROVE  \E e \in Events(r, names) : e.name = n
        <4>1. [by |-> r, case |-> work[r].case, name |-> n] \in Events(r, names)
          BY DEF Events
        <4> QED BY <4>1
      <3> QED BY <3>1, <3>2
    <2> QED BY <2>1
  <1> HIDE DEF a, b
  <1>4. /\ w.ops = work[r].ops /\ w.audit = a /\ w.outbox = b
        /\ w.pid = work[r].pid /\ w.pend = work[r].pend
    BY <1>2 DEF Work
  <1> HIDE DEF w
  <1>5. Apart(r) /\ UNCHANGED <<cmd, answer>> /\ pc'[r] = "recorded" /\ work'[r] = w
    BY <1>1, <1>2, GotoApart
  <1>6. (Active(r))'
    BY <1>5 DEF Active
  <1> QED BY <1>1, <1>2, <1>3, <1>4, <1>5, <1>6, WorkKeepsTrail DEF HoldsBack

\* What the rules add is recorded for the same request.
LEMMA RuleActionTrail ==
  ASSUME TrailInv, CaseInv', NEW r \in Requests, RulesRun(r),
         NEW row, NEW type, NEW from, NEW to, NEW events,
         RuleAction(r, row, type, from, to, events)
  PROVE  TrailInv'
  <1> DEFINE o == [case |-> work[r].case, id |-> OperationId(r), type |-> type,
                   from |-> from, to |-> to, by |-> r]
             next == [row EXCEPT !.nextOp = @ + 1]
             a == Events(r, {"rule.execute"})
             b == Events(r, events)
             w == [work[r] EXCEPT !.row = next, !.ops = @ \cup {o}, !.audit = @ \cup a,
                                  !.outbox = @ \cup b, !.fired = @ + 1]
  <1>1. Active(r) /\ pc[r] = "recorded" /\ UNCHANGED seen /\ Goto(r, "recorded", w)
    BY DEF RuleAction, RulesRun, Active
  <1>2. TypeOK /\ work[r] \in Work /\ HoldsBack(r)
    BY <1>1, ActorParts DEF TrailInv
  <1>3. o.by = r /\ \A x \in a \cup b : x.by = r
    BY DEF Events
  <1> HIDE DEF o, next, a, b
  <1>4. /\ w.ops = work[r].ops \cup {o} /\ w.audit = work[r].audit \cup a
        /\ w.outbox = work[r].outbox \cup b
        /\ w.pid = work[r].pid /\ w.pend = work[r].pend
    BY <1>2 DEF Work
  <1> HIDE DEF w
  <1>5. Apart(r) /\ UNCHANGED <<cmd, answer>> /\ pc'[r] = "recorded" /\ work'[r] = w
    BY <1>1, <1>2, GotoApart
  <1>6. (Active(r))'
    BY <1>5 DEF Active
  <1>7. /\ \A x \in w.ops \cup w.audit \cup w.outbox : x.by = r
        /\ \E q \in w.ops : q.type = LoggedType(r)
    BY <1>1, <1>2, <1>3, <1>4 DEF HoldsBack
  <1>8. /\ AuditNames[Kind(r)] \subseteq {e.name : e \in w.audit}
        /\ OutboxNames[Kind(r)] \subseteq {e.name : e \in w.outbox}
    BY <1>1, <1>2, <1>4 DEF HoldsBack
  <1> QED BY <1>1, <1>4, <1>5, <1>6, <1>7, <1>8, WorkKeepsTrail

LEMMA RulesTrail ==
  ASSUME TrailInv, CaseInv', NEW r \in Requests,
         RuleSetState(r) \/ RuleUpdateValues(r) \/ RuleRecord(r)
  PROVE  TrailInv'
  <1>1. RulesRun(r)
    BY DEF RuleSetState, RuleUpdateValues, RuleRecord
  <1>2. \E row, type, from, to, events : RuleAction(r, row, type, from, to, events)
    BY DEF RuleSetState, RuleUpdateValues, RuleRecord
  <1> QED BY <1>1, <1>2, RuleActionTrail

-----------------------------------------------------------------------------
(* The commit: what was held back is there, and the decision is made. *)

LEMMA CommitTrail ==
  ASSUME TrailInv, CaseInv', NEW r \in Requests, pc[r] = "recorded",
         NEW told \in {"ok", "error"}, Install(r), Finish(r, told)
  PROVE  TrailInv'
  <1> DEFINE t == work[r].pid
  <1>1. /\ CaseInv /\ TypeOK /\ RequestInv(r) /\ Active(r) /\ cmd[r] # None /\ cmd' = cmd
        /\ pc'[r] = "done" /\ work'[r] = NoWork /\ answer'[r] = told /\ OthersStand(r)
        /\ work[r] \in Work
    <2>1. CaseInv /\ Active(r)
      BY DEF TrailInv, Active
    <2>2. TypeOK /\ RequestInv(r) /\ OthersStand(r) /\ pc'[r] = "done" /\ work'[r] = NoWork
          /\ cmd' = cmd /\ work[r] \in Work
      BY <2>1, CommitParts, ActorParts
    <2>3. cmd[r] # None /\ answer'[r] = told
      BY <2>2 DEF RequestInv, Carries, Finish, TypeOK
    <2> QED BY <2>1, <2>2, <2>3
  <1>2. /\ operations' = operations \cup work[r].ops /\ audit' = audit \cup work[r].audit
        /\ outbox' = outbox \cup work[r].outbox
        /\ pending' = IF t = None THEN pending ELSE [pending EXCEPT ![t] = work[r].pend]
    BY DEF Install
  <1>3. /\ HoldsBack(r) /\ AboutToDecide(r) /\ Untraced(r) /\ DecidedOnce /\ DecisionsKnown
        /\ \A q \in Requests : Truthful(q)
    BY DEF TrailInv, HoldsBack, AnswerMatchesTraces
  <1>4. \A x \in work[r].ops \cup work[r].audit \cup work[r].outbox : x.by = r
    BY <1>3 DEF HoldsBack
  <1>5. Truthful(r)'
    <2>1. /\ Kind(r)' = Kind(r) /\ LoggedType(r)' = LoggedType(r)
          /\ AuditNames' = AuditNames /\ OutboxNames' = OutboxNames
      BY <1>1 DEF Kind, LoggedType, AuditNames, OutboxNames
    <2>2. /\ \E o \in work[r].ops : o.type = LoggedType(r)
          /\ AuditNames[Kind(r)] \subseteq {e.name : e \in work[r].audit}
          /\ OutboxNames[Kind(r)] \subseteq {e.name : e \in work[r].outbox}
      BY <1>3 DEF HoldsBack
    <2>3. FullTraces(r)'
      BY <1>2, <1>4, <2>1, <2>2 DEF FullTraces, Traces
    <2> QED BY <1>1, <2>3 DEF Truthful
  <1>6. /\ t # None => /\ t \in PendingIds /\ lock[t] = r /\ work[r].pend # None
                       /\ Kind(r) \in Decisions \cup {"stage"}
        /\ Kind(r) \in Decisions => t # None /\ t = cmd[r].pid
        /\ Kind(r) = "stage" => t # None
    BY <1>1, <1>3 DEF RequestInv, OnPending, AboutToDecide, Work, Decisions
  <1>7. \A p \in PendingIds : pending'[p] = IF p = t THEN work[r].pend ELSE pending[p]
    BY <1>1, <1>2, <1>6, NoneAssumption DEF TypeOK
  <1>8. ASSUME NEW q \in Requests \ {r}
        PROVE  Trail(q)'
    <2>1. /\ pc'[q] = pc[q] /\ work'[q] = work[q] /\ cmd'[q] = cmd[q] /\ answer'[q] = answer[q]
          /\ Kind(q)' = Kind(q) /\ RequestInv(q) /\ Trail(q)
      BY <1>1, <1>3, <1>8 DEF OthersStand, Kind, CaseInv, TrailInv, Trail, Finish, TypeOK
    <2>2. Truthful(q)' = Truthful(q) /\ Untraced(q)' = Untraced(q)
      BY <1>2, <1>4, <1>8, <2>1, TracesKept
    <2>3. HoldsBack(q)'
      BY <2>1, <2>2 DEF Trail, HoldsBack, LoggedType, AuditNames, OutboxNames
    <2>4. Active(q) /\ pc[q] # "ready" /\ Kind(q) \in Decisions =>
            pending'[work[q].pid] = pending[work[q].pid]
      BY <1>1, <1>6, <1>7, <1>8, <2>1, ActorParts DEF RequestInv, OnPending
    <2>5. AboutToDecide(q)'
      BY <2>1, <2>4 DEF Trail, AboutToDecide, Active, StillPending, Verdict
    <2> QED BY <2>1, <2>2, <2>3, <2>5 DEF Trail
  <1>9. HoldsBack(r)' /\ AboutToDecide(r)'
    BY <1>1 DEF HoldsBack, AboutToDecide, Active, NoWork
  <1>10. /\ \A q \in Requests \ {r}, p \in PendingIds : Decided(q, p)' = Decided(q, p)
         /\ \A p \in PendingIds : ~Decided(r, p)
         /\ \A p \in PendingIds : Decided(r, p)' = (Kind(r) \in Decisions /\ p = t)
    <2>1. \A q \in Requests : Kind(q)' = Kind(q)
      BY <1>1 DEF Kind
    <2>2. Kind(r) \in Decisions => \E e \in work[r].audit : e.by = r
      <3>1. Kind(r) \in Decisions => AuditNames[Kind(r)] # {}
        BY DEF AuditNames, Decisions
      <3> QED BY <1>3, <1>4, <3>1 DEF HoldsBack
    <2>3. \A q \in Requests \ {r} : {e \in audit' : e.by = q} = {e \in audit : e.by = q}
      BY <1>2, <1>4
    <2>4. ASSUME NEW q \in Requests \ {r}, NEW p \in PendingIds
          PROVE  Decided(q, p)' = Decided(q, p)
      BY <1>1, <2>1, <2>3, <2>4 DEF Decided
    <2>5. \A p \in PendingIds : ~Decided(r, p)
      BY <1>3 DEF Decided, Untraced
    <2>6. \A p \in PendingIds : Decided(r, p)' = (Kind(r) \in Decisions /\ p = t)
      BY <1>1, <1>2, <1>6, <2>1, <2>2 DEF Decided
    <2> QED BY <2>4, <2>5, <2>6
  <1>11. DecisionsKnown'
    <2>1. ASSUME NEW q \in Requests, NEW p \in PendingIds, Decided(q, p)'
          PROVE  pending'[p] # None
      <3>1. CASE q = r
        BY <1>6, <1>7, <1>10, <2>1, <3>1 DEF Decided
      <3>2. CASE q # r
        <4>1. Decided(q, p)
          BY <1>10, <2>1, <3>2 DEF Decided
        <4>2. pending[p] # None
          BY <1>3, <4>1 DEF DecisionsKnown
        <4> QED BY <1>6, <1>7, <4>2, NoneAssumption
      <3> QED BY <3>1, <3>2
    <2> QED BY <2>1 DEF DecisionsKnown
  <1>12. DecidedOnce'
    <2> SUFFICES ASSUME NEW p \in PendingIds, pending'[p] # None
                 PROVE  LET D == {q \in Requests : Decided(q, p)'} IN
                        IF pending'[p].status = "pending" THEN D = {}
                        ELSE \E q \in D : /\ D = {q}
                               /\ Kind(q)' = (IF pending'[p].status = "approved" THEN "approve"
                                                                               ELSE "reject")
      BY DEF DecidedOnce
    <2>1. \A q \in Requests : Kind(q)' = Kind(q)
      BY <1>1 DEF Kind
    <2>2. CASE p # t
      <3>1. ASSUME NEW q \in Requests
            PROVE  Decided(q, p)' = Decided(q, p)
        <4>1. CASE q = r
          BY <1>10, <2>2, <4>1 DEF Decided
        <4>2. CASE q # r
          BY <1>10, <4>2 DEF Decided
        <4> QED BY <4>1, <4>2
      <3>2. {q \in Requests : Decided(q, p)'} = {q \in Requests : Decided(q, p)}
        BY <3>1
      <3>3. pending'[p] = pending[p] /\ pending[p] # None
        BY <1>7, <2>2
      <3> QED BY <1>3, <2>1, <3>2, <3>3 DEF DecidedOnce
    <2>3. CASE p = t /\ Kind(r) \in Decisions
      <3>1. pending[p] # None /\ pending[p].status = "pending"
        BY <1>1, <1>3, <2>3 DEF RequestInv, OnPending, AboutToDecide, StillPending
      <3>2. {q \in Requests : Decided(q, p)} = {}
        BY <1>3, <3>1 DEF DecidedOnce
      <3>3. {q \in Requests : Decided(q, p)'} = {r}
        BY <1>10, <2>3, <3>2
      <3>4. pending'[p].status = Verdict(r)
        BY <1>1, <1>3, <1>7, <2>3 DEF AboutToDecide
      <3> QED BY <2>1, <2>3, <3>3, <3>4 DEF Verdict, Decisions
    <2>4. CASE p = t /\ Kind(r) \notin Decisions
      <3>1. Kind(r) = "stage" /\ pending[p] = None
        BY <1>1, <1>6, <2>4, NoneAssumption DEF RequestInv, OnPending
      <3>2. \A q \in Requests : ~Decided(q, p)'
        BY <1>3, <1>10, <2>4, <3>1 DEF DecisionsKnown
      <3>3. pending'[p].status = "pending"
        BY <1>1, <1>3, <1>7, <2>4, <3>1 DEF AboutToDecide
      <3> QED BY <3>2, <3>3
    <2> QED BY <2>2, <2>3, <2>4
  <1> QED BY <1>5, <1>8, <1>9, <1>11, <1>12 DEF TrailInv, Trail, AnswerMatchesTraces

-----------------------------------------------------------------------------
(* The theorems. *)

LEMMA TrailInit ==
  ASSUME Init
  PROVE  TrailInv
  <1>1. CaseInv
    BY InitInv
  <1>2. /\ operations = {} /\ audit = {} /\ outbox = {}
        /\ \A r \in Requests : pc[r] = "idle" /\ work[r] = NoWork /\ answer[r] = None
        /\ \A p \in PendingIds : pending[p] = None
    BY DEF Init, InitTables
  <1>3. \A r \in Requests : Untraced(r)
    BY <1>2 DEF Untraced
  <1>4. AnswerMatchesTraces
    BY <1>2, <1>3, UntracedHasNone, NoAnswerAssumption DEF AnswerMatchesTraces, Truthful
  <1>5. DecidedOnce /\ DecisionsKnown
    BY <1>2 DEF DecidedOnce, DecisionsKnown, Decided
  <1>6. \A r \in Requests : HoldsBack(r) /\ AboutToDecide(r)
    BY <1>2, <1>3 DEF HoldsBack, AboutToDecide, Active, NoWork
  <1> QED BY <1>1, <1>4, <1>5, <1>6 DEF TrailInv

LEMMA TrailStutters ==
  ASSUME TrailInv, CaseInv', UNCHANGED vars
  PROVE  TrailInv'
  <1>1. UNCHANGED <<operations, audit, outbox, pending, pc, cmd, work, answer>>
    BY DEF vars, tables, request
  <1>2. \A r \in Requests : Kind(r)' = Kind(r)
    BY <1>1 DEF Kind
  <1>3. \A r \in Requests : Truthful(r)' = Truthful(r) /\ Untraced(r)' = Untraced(r)
    BY <1>1, TracesKept
  <1>4. \A r \in Requests : HoldsBack(r)' /\ AboutToDecide(r)'
    BY <1>1, <1>2, <1>3
    DEF TrailInv, HoldsBack, AboutToDecide, Active, StillPending, Verdict, LoggedType,
        AuditNames, OutboxNames
  <1>5. \A r \in Requests, p \in PendingIds : Decided(r, p)' = Decided(r, p)
    BY <1>1, <1>2 DEF Decided
  <1>6. DecisionsKnown'
    BY <1>1, <1>5 DEF TrailInv, DecisionsKnown
  <1>7. DecidedOnce'
    BY <1>1, <1>2 DEF TrailInv, DecidedOnce, Decided
  <1> QED BY <1>3, <1>4, <1>6, <1>7 DEF TrailInv, AnswerMatchesTraces

\* HARDENING_PORT.md 22-25: at every statement of every request, what it records is held
\* back until its commit, and the submission it decides waits for nobody else.
THEOREM TrailInvariance == Spec => []TrailInv
  <1>1. Init => TrailInv
    BY TrailInit
  <1>2. TrailInv /\ [Next]_vars => TrailInv'
    <2> SUFFICES ASSUME TrailInv, [Next]_vars
                 PROVE  TrailInv'
      OBVIOUS
    <2>1. CaseInv'
      BY NextInv DEF TrailInv
    <2>2. CASE UNCHANGED vars
      BY <2>1, <2>2, TrailStutters
    <2>3. ASSUME NEW r \in Requests, Commit(r) \/ CommitUnacknowledged(r)
          PROVE  TrailInv'
      BY <2>1, <2>3, CommitTrail DEF Commit, CommitUnacknowledged
    <2> QED
      BY <2>1, <2>2, <2>3, ReceiveTrail, EndTrail, SubmissionTrail, RowTrail,
         AppendOperationTrail, WriteTrailTrail, RulesTrail
      DEF Next, Advance, Terminated
  <1> QED BY <1>1, <1>2, PTL DEF Spec

\* appendAudit, appendOutbox, transaction: whatever the interleaving and the failures, a
\* client told "ok" has its operation, its audit events and its messages; one told
\* anything but "ok" or "error" has none of them, and "error" leaves all or none.
THEOREM AnswersMatch == Spec => []AnswerMatchesTraces
  <1>1. TrailInv => AnswerMatchesTraces
    BY DEF TrailInv
  <1> QED BY <1>1, TrailInvariance, PTL

\* decidePending: however many workers approve and reject the same submission at once,
\* its status is the decision of exactly one of them.
THEOREM DecidesOnce == Spec => []DecidedOnce
  <1>1. TrailInv => DecidedOnce
    BY DEF TrailInv
  <1> QED BY <1>1, TrailInvariance, PTL

-----------------------------------------------------------------------------
(***************************************************************************)
(* What is shown of a published case is of one moment of its history.      *)
(***************************************************************************)

Ready == HistoryInv /\ TrailInv /\ PublicInv
Public(r) == VersionTells(r) /\ Advances(r) /\ AboutToPublish(r)

\* A request that holds no transaction shows nothing.
LEMMA NoWorkParts ==
  NoWork.projects = FALSE /\ NoWork.proj = None /\ NoWork.shown = {}
  BY DEF NoWork

\* Whose records are not committed has published nothing, so that what it does next
\* changes nobody's publications.
LEMMA PublicationsKept ==
  ASSUME TypeOK, NEW r \in Requests, Untraced(r), UNCHANGED operations,
         \A q \in Requests \ {r} : cmd'[q] = cmd[q]
  PROVE  \A c : Publications(c)' = Publications(c) /\ History(c)' = History(c)
  <1>1. ASSUME NEW o \in operations
        PROVE  Kind(o.by)' = Kind(o.by)
    <2>1. o.by \in Requests \ {r}
      BY DEF TypeOK, Operation, Untraced
    <2> QED BY <2>1 DEF Kind
  <1> QED BY <1>1 DEF Publications, History

LEMMA ApartKeepsPublic ==
  ASSUME Ready, NEW r \in Requests, pc[r] # "done", Apart(r), Public(r)'
  PROVE  PublicInv'
  <1>1. /\ UNCHANGED <<cases, operations, projection, shownOps>>
        /\ TypeOK /\ Untraced(r) /\ ProjectionConsistent
        /\ \A q \in Requests : Public(q)
    BY DEF Ready, Apart, tables, TrailInv, CaseInv, HoldsBack, PublicInv, Public
  <1>2. \A c : Publications(c)' = Publications(c) /\ History(c)' = History(c)
    BY <1>1, PublicationsKept DEF Apart, OthersStand
  <1>3. ProjectionConsistent'
    BY <1>1, <1>2
    DEF ProjectionConsistent, Exists, ShownBy, ShownIds, LeadsTo, IsLatest, Before, Bearing
  <1>4. ASSUME NEW q \in Requests \ {r}
        PROVE  Public(q)'
    <2>1. /\ pc'[q] = pc[q] /\ work'[q] = work[q] /\ seen'[q] = seen[q] /\ Kind(q)' = Kind(q)
      BY <1>4 DEF Apart, OthersStand, Kind
    <2> QED BY <1>1, <1>2, <2>1 DEF Public, VersionTells, Advances, AboutToPublish, Active, Writing
  <1> QED BY <1>3, <1>4 DEF PublicInv, Public

-----------------------------------------------------------------------------
(* Statements that write no row. *)

\* A request that has written no row shows nothing yet.
LEMMA ReadingKeepsPublic ==
  ASSUME Ready, NEW r \in Requests, pc[r] # "done", Apart(r), ~(Writing(r))',
         work'[r].projects = FALSE, work'[r].proj = None, work'[r].shown = {}, VersionTells(r)'
  PROVE  PublicInv'
  <1>1. Public(r)'
    BY DEF Public, Advances, AboutToPublish, Writing
  <1> QED BY <1>1, ApartKeepsPublic

\* What the handler reads before its transaction is the case as it is then.
LEMMA ReceivePublic ==
  ASSUME Ready, NEW r \in Requests, ReceiveCreate(r) \/ ReceiveOnCase(r) \/ ReceiveDecision(r)
  PROVE  PublicInv'
  <1>1. TypeOK
    BY DEF Ready, TrailInv, CaseInv
  <1>2. PICK k, row, w :
          /\ k \in Commands /\ Accept(r, k, row, w)
          /\ w.projects = FALSE /\ w.proj = None /\ w.shown = {}
          /\ k.kind = "publish" => w.case = k.case /\ row = cases[k.case] /\ cases[k.case] # None
    <2>1. CASE ReceiveCreate(r)
      BY <2>1 DEF ReceiveCreate, NoWork
    <2>2. CASE ReceiveOnCase(r)
      <3> DEFINE w(k) == [NoWork EXCEPT !.case = k.case]
      <3>1. PICK k \in Commands : Accept(r, k, cases[k.case], w(k)) /\ cases[k.case] # None
        BY <2>2 DEF ReceiveOnCase
      <3>2. w(k).projects = FALSE /\ w(k).proj = None /\ w(k).shown = {} /\ w(k).case = k.case
        BY DEF NoWork
      <3> HIDE DEF w
      <3> QED BY <3>1, <3>2
    <2>3. CASE ReceiveDecision(r)
      <3> DEFINE w(k) == [NoWork EXCEPT !.case = pending[k.pid].case, !.pid = k.pid,
                                        !.pend = pending[k.pid]]
      <3>1. PICK k \in Commands :
              k.kind \in Decisions /\ Accept(r, k, cases[pending[k.pid].case], w(k))
        BY <2>3 DEF ReceiveDecision
      <3>2. w(k).projects = FALSE /\ w(k).proj = None /\ w(k).shown = {}
        BY DEF NoWork
      <3> HIDE DEF w
      <3> QED BY <3>1, <3>2 DEF Decisions
    <2> QED BY <2>1, <2>2, <2>3
  <1>3. /\ Apart(r) /\ pc[r] = "idle" /\ pc'[r] = "ready" /\ work'[r] = w /\ cmd'[r] = k
        /\ seen'[r] = row /\ cases' = cases
    BY <1>1, <1>2, AcceptApart DEF Accept, TypeOK, tables
  <1>4. k.kind = "publish" => cases[k.case].version \in Nat
    <2>1. k \in Command
      BY <1>2, CommandsAssumption
    <2>2. k.kind = "publish" => k.case \in CaseKeys
      BY <2>1, CommandParts DEF Decisions
    <2>3. \A c \in CaseKeys : cases[c] # None => cases[c].version \in Nat
      BY <1>1 DEF TypeOK, Row
    <2> QED BY <1>2, <2>2, <2>3
  <1>5. VersionTells(r)'
    BY <1>2, <1>3, <1>4 DEF VersionTells, Kind
  <1>6. ~(Writing(r))'
    BY <1>3 DEF Writing
  <1> QED BY <1>2, <1>3, <1>5, <1>6, ReadingKeepsPublic

LEMMA EndPublic ==
  ASSUME Ready, NEW r \in Requests,
         \/ Refuse(r) \/ DecisionConflict(r) \/ RejectTransition(r) \/ UpdateConflict(r)
         \/ RejectSelection(r) \/ Fail(r)
  PROVE  PublicInv'
  <1>1. TypeOK
    BY DEF Ready, TrailInv, CaseInv
  <1>2. pc[r] # "done" /\ UNCHANGED tables /\ \E told : Finish(r, told)
    BY DEF Refuse, DecisionConflict, RejectTransition, UpdateConflict, RejectSelection, Fail,
           ReadyToUpdate, Abandon, Undo, Discard
  <1>3. Apart(r) /\ pc'[r] = "done" /\ work'[r] = NoWork
    BY <1>1, <1>2, FinishApart
  <1>4. ~(Writing(r))' /\ VersionTells(r)'
    BY <1>3 DEF Writing, VersionTells, Active
  <1>5. NoWork.projects = FALSE /\ NoWork.proj = None /\ NoWork.shown = {}
    BY DEF NoWork
  <1> QED BY <1>2, <1>3, <1>4, <1>5, ReadingKeepsPublic

\* Neither a submission nor a SELECT of the version is a publication's.
LEMMA EntryPublic ==
  ASSUME Ready, NEW r \in Requests, InsertPending(r) \/ DecidePending(r) \/ ReadVersion(r)
  PROVE  PublicInv'
  <1>1. /\ Active(r) /\ ~Writing(r) /\ Kind(r) \notin Publishings
        /\ \/ pc[r] = "ready" /\ UNCHANGED seen
           \/ ReadVersion(r)
    BY DEF InsertPending, DecidePending, ReadVersion, ReadsVersion, ChangesFields, AtEntry,
           Active, Writing, Decisions, Publishings
  <1>2. TypeOK /\ work[r] \in Work /\ AboutToPublish(r)
    BY <1>1, ActorParts DEF Ready, TrailInv, PublicInv
  <1>3. work[r].projects = FALSE /\ work[r].proj = None /\ work[r].shown = {}
    BY <1>1, <1>2 DEF AboutToPublish, Writing
  <1>4. /\ Apart(r) /\ Kind(r)' = Kind(r) /\ pc'[r] \in {"open", "checked"}
        /\ work'[r].projects = work[r].projects /\ work'[r].proj = work[r].proj
        /\ work'[r].shown = work[r].shown
    <2>1. CASE ReadVersion(r)
      BY <1>2, <2>1, ReadVersionApart
    <2>2. CASE InsertPending(r) \/ DecidePending(r)
      <3> DEFINE u(p, pend) == [work[r] EXCEPT !.pid = p, !.pend = pend]
                 v(pend) == [work[r] EXCEPT !.pend = pend]
      <3>1. /\ UNCHANGED seen
            /\ \/ \E p, pend : Goto(r, "open", u(p, pend))
               \/ \E pend : Goto(r, "open", v(pend))
        BY <2>2 DEF InsertPending, DecidePending
      <3>2. /\ \A p, pend : /\ u(p, pend).projects = work[r].projects
                            /\ u(p, pend).proj = work[r].proj /\ u(p, pend).shown = work[r].shown
            /\ \A pend : /\ v(pend).projects = work[r].projects
                         /\ v(pend).proj = work[r].proj /\ v(pend).shown = work[r].shown
        BY <1>2 DEF Work
      <3> HIDE DEF u, v
      <3> QED BY <1>2, <3>1, <3>2, GotoApart
    <2> QED BY <1>1, <2>1, <2>2
  <1>5. ~(Writing(r))' /\ VersionTells(r)'
    BY <1>1, <1>4 DEF Writing, VersionTells, Publishings
  <1> QED BY <1>1, <1>3, <1>4, <1>5, ReadingKeepsPublic DEF Active

-----------------------------------------------------------------------------
(* Statements that write the row. *)

\* A command that is no publication keeps what the case shows, and gives a new state a
\* new version.
LEMMA PlainKeepsPublic ==
  ASSUME Ready, NEW r \in Requests, Active(r), Apart(r), Kind(r)' = Kind(r),
         Kind(r) \notin Publishings, (Writing(r))',
         work'[r].projects = work[r].projects, work'[r].proj = work[r].proj,
         work'[r].shown = work[r].shown,
         Kind(r) = "create" => work'[r].row.published = FALSE,
         Kind(r) # "create" =>
           LET current == cases[work'[r].case]
               row == work'[r].row
           IN
           /\ row.published = current.published /\ current.version <= row.version
           /\ row.version = current.version => row.state = current.state
  PROVE  PublicInv'
  <1>1. cases' = cases /\ pc[r] # "done" /\ AboutToPublish(r)
    BY DEF Apart, tables, Active, Ready, PublicInv
  <1>2. work[r].projects = FALSE /\ work[r].proj = None /\ work[r].shown = {}
    BY <1>1 DEF AboutToPublish, Publishings
  <1>3. VersionTells(r)' /\ Advances(r)'
    BY <1>1 DEF VersionTells, Advances, Publishings
  <1>4. AboutToPublish(r)'
    BY <1>1, <1>2 DEF AboutToPublish, Publishings
  <1> QED BY <1>1, <1>3, <1>4, ApartKeepsPublic DEF Public

LEMMA AllocateNumberPublic ==
  ASSUME Ready, NEW r \in Requests, AllocateNumber(r)
  PROVE  PublicInv'
  <1> DEFINE row == NewRow(cmd[r], counter[cmd[r].year] + 1)
             w(c) == [work[r] EXCEPT !.case = c, !.row = row]
  <1>1. /\ Active(r) /\ Kind(r) = "create" /\ UNCHANGED seen
        /\ \E c \in CaseKeys : Goto(r, "held", w(c))
    BY DEF AllocateNumber, Active
  <1>2. TypeOK /\ work[r] \in Work
    BY <1>1, ActorParts DEF Ready, TrailInv
  <1>3. row.published = FALSE
    BY DEF NewRow
  <1> HIDE DEF row
  <1>4. \A c : /\ w(c).row = row /\ w(c).projects = work[r].projects
               /\ w(c).proj = work[r].proj /\ w(c).shown = work[r].shown
    BY <1>2 DEF Work
  <1> HIDE DEF w
  <1>5. /\ Apart(r) /\ Kind(r)' = Kind(r) /\ pc'[r] = "held" /\ work'[r].row = row
        /\ work'[r].projects = work[r].projects /\ work'[r].proj = work[r].proj
        /\ work'[r].shown = work[r].shown
    BY <1>1, <1>2, <1>4, GotoApart
  <1> QED BY <1>1, <1>3, <1>5, PlainKeepsPublic DEF Writing, Publishings

\* The compare-and-swap: the version a publication has read is still the case's, and so
\* is the state that was read with it.
LEMMA UpdateCasePublic ==
  ASSUME Ready, NEW r \in Requests, UpdateCase(r)
  PROVE  PublicInv'
  <1> DEFINE c == work[r].case
             w == [work[r] EXCEPT !.row = Updated(r)]
  <1>1. /\ Active(r) /\ ~Writing(r) /\ ReadyToUpdate(r) /\ CasHolds(r) /\ UNCHANGED seen
        /\ Goto(r, "held", w)
    BY DEF UpdateCase, ReadyToUpdate, Active, Writing
  <1>2. /\ TypeOK /\ RequestInv(r) /\ work[r] \in Work /\ Public(r)
    BY <1>1, ActorParts DEF Ready, TrailInv, PublicInv, Public
  <1>3. Kind(r) # "create"
    BY <1>1, <1>2 DEF ReadyToUpdate, RequestInv, Carries, Publishings
  <1>4. cases[c] \in Row /\ cmd[r] \in Command
    BY <1>1, <1>3, ActorParts DEF Ready, TrailInv
  <1>5. /\ Updated(r).version = cases[c].version + 1
        /\ Updated(r).published = IF Kind(r) \in Publishings THEN Kind(r) = "publish"
                                                              ELSE cases[c].published
    <2>1. /\ Bump(cases[c]) \in Row /\ Bump(cases[c]).version = cases[c].version + 1
          /\ Bump(cases[c]).published = cases[c].published
      BY <1>4, BumpType DEF Bump, Row
    <2>2. Kind(r) \in {"transition", "update", "approve"} \cup Publishings
      BY <1>1, <1>2 DEF ReadyToUpdate, RequestInv, Carries
    <2> QED BY <2>1, <2>2 DEF Updated, Row, Publishings
  <1>6. cases[c].version \in Nat
    BY <1>4 DEF Row
  <1>7. /\ w.row = Updated(r) /\ w.case = c /\ w.projects = work[r].projects
        /\ w.proj = work[r].proj /\ w.shown = work[r].shown
    BY <1>2 DEF Work
  <1> HIDE DEF w
  <1>8. /\ Apart(r) /\ Kind(r)' = Kind(r) /\ pc'[r] = "held" /\ work'[r] = w /\ seen' = seen
    BY <1>1, <1>2, GotoApart
  <1>9. (Writing(r))'
    BY <1>8 DEF Writing
  <1>10. CASE Kind(r) \notin Publishings
    <2>1. /\ work'[r].case = c /\ work'[r].row.published = cases[c].published
          /\ work'[r].row.version = cases[c].version + 1
      BY <1>5, <1>7, <1>8, <1>10
    <2>2. /\ cases[c].version <= cases[c].version + 1
          /\ cases[c].version + 1 # cases[c].version
      BY <1>6
    <2>3. /\ work'[r].projects = work[r].projects /\ work'[r].proj = work[r].proj
          /\ work'[r].shown = work[r].shown
      BY <1>7, <1>8
    <2> QED BY <1>1, <1>3, <1>8, <1>9, <1>10, <2>1, <2>2, <2>3, PlainKeepsPublic
  <1>11. CASE Kind(r) \in Publishings
    <2>1. cases' = cases /\ pc[r] # "done"
      BY <1>1, <1>8 DEF Apart, tables, Active
    <2>2. Kind(r) = "publish" => seen[r].state = cases[c].state
      BY <1>1, <1>2 DEF Public, VersionTells, CasHolds
    <2>3. VersionTells(r)'
      BY <1>1, <1>2, <1>7, <1>8, <2>1 DEF Public, VersionTells
    <2>4. Advances(r)'
      BY <1>5, <1>6, <1>7, <1>8, <2>1 DEF Advances
    <2>5. work[r].projects = FALSE /\ work[r].proj = None /\ work[r].shown = {}
      BY <1>1, <1>2 DEF Public, AboutToPublish, Writing
    <2>6. AboutToPublish(r)'
      BY <1>5, <1>7, <1>8, <1>11, <2>1, <2>2, <2>5 DEF AboutToPublish
    <2> QED BY <1>8, <2>1, <2>3, <2>4, <2>6, ApartKeepsPublic DEF Public
  <1> QED BY <1>10, <1>11

\* What is projected is the state that was read, and operations that are there.
LEMMA ProjectPublic ==
  ASSUME Ready, NEW r \in Requests, Project(r)
  PROVE  PublicInv'
  <1> DEFINE c == work[r].case
             proj == [state |-> seen[r].state,
                      fields |-> [f \in cmd[r].pick |-> work[r].row.fields[f]]]
             v == [work[r] EXCEPT !.projects = TRUE, !.shown = cmd[r].ops, !.proj = proj]
             w == [work[r] EXCEPT !.projects = TRUE]
  <1>1. /\ Active(r) /\ Writing(r) /\ pc[r] = "held" /\ Kind(r) \in Publishings /\ UNCHANGED seen
        /\ Kind(r) = "publish" => SelectionExists(r) /\ Goto(r, "projected", v)
        /\ Kind(r) # "publish" => Goto(r, "projected", w)
    BY DEF Project, Active, Writing
  <1>2. /\ TypeOK /\ work[r] \in Work /\ Public(r) /\ seen[r] \in Row
    BY <1>1, ActorParts DEF Ready, TrailInv, PublicInv, Public
  <1>3. Kind(r) = "publish" =>
          proj.state = seen[r].state /\ proj # None
            /\ cmd[r].ops \subseteq {o.id : o \in History(c)}
    <2>1. HAVE Kind(r) = "publish"
    <2>2. /\ cmd[r] \in Command /\ cmd[r].pick \subseteq Fields /\ work[r].row \in Row
      BY <1>1, <2>1, ActorParts, CommandParts DEF Ready, TrailInv, Kind
    <2>3. [f \in cmd[r].pick |-> work[r].row.fields[f]] \in [cmd[r].pick -> Values \cup {None}]
      BY <2>2 DEF Row
    <2>4. proj \in Projection
      BY <1>2, <2>2, <2>3 DEF Projection, Row
    <2>5. cmd[r].ops \subseteq {o.id : o \in History(c)}
      BY <1>1, <2>1 DEF SelectionExists, History
    <2> QED BY <2>4, <2>5, NoRowAssumption
  <1> HIDE DEF proj
  <1>4. /\ v.projects = TRUE /\ v.shown = cmd[r].ops /\ v.proj = proj
        /\ v.case = c /\ v.row = work[r].row
    BY <1>2 DEF Work
  <1>5. /\ w.projects = TRUE /\ w.shown = work[r].shown /\ w.proj = work[r].proj
        /\ w.case = c /\ w.row = work[r].row
    BY <1>2 DEF Work
  <1> HIDE DEF v, w
  <1>6. /\ Apart(r) /\ UNCHANGED <<cases, operations>> /\ Kind(r)' = Kind(r)
        /\ pc'[r] = "projected" /\ seen' = seen /\ work'[r].projects = TRUE
        /\ work'[r].case = c /\ work'[r].row = work[r].row
        /\ work'[r] = IF Kind(r) = "publish" THEN v ELSE w
    BY <1>1, <1>2, <1>4, <1>5, GotoApart DEF tables
  <1>7. VersionTells(r)' /\ Advances(r)'
    BY <1>1, <1>2, <1>6 DEF Public, VersionTells, Advances, Active
  <1>8. AboutToPublish(r)'
    <2>1. /\ work[r].row.published = (Kind(r) = "publish")
          /\ Kind(r) = "publish" => seen[r].state = cases[c].state
          /\ Kind(r) = "unpublish" => work[r].proj = None /\ work[r].shown = {}
      BY <1>1, <1>2 DEF Public, AboutToPublish
    <2>2. /\ Kind(r) = "publish" => work'[r].proj = proj /\ work'[r].shown = cmd[r].ops
          /\ Kind(r) = "unpublish" => work'[r].proj = None /\ work'[r].shown = {}
      BY <1>4, <1>5, <1>6, <2>1
    <2>3. History(c)' = History(c)
      BY <1>6 DEF History
    <2>4. History(work[r].case)' = History(c)
      BY <1>6 DEF History
    <2> QED BY <1>1, <1>3, <1>6, <2>1, <2>2, <2>4 DEF AboutToPublish
  <1> QED BY <1>1, <1>6, <1>7, <1>8, ApartKeepsPublic DEF Public, Active

\* A later statement of a publication keeps what it is about to show.
LEMMA PublishingKeepsPublic ==
  ASSUME Ready, NEW r \in Requests, Active(r), Apart(r), Kind(r)' = Kind(r), seen' = seen,
         Kind(r) \in Publishings,
         \/ pc[r] = "projected" /\ pc'[r] = "logged" /\ \E o \in work'[r].ops : work'[r].ops = {o}
         \/ pc[r] = "logged" /\ pc'[r] = "recorded" /\ work'[r].ops = work[r].ops,
         work'[r].case = work[r].case, work'[r].projects = work[r].projects,
         work'[r].proj = work[r].proj, work'[r].shown = work[r].shown,
         work'[r].row.published = work[r].row.published,
         work'[r].row.version = work[r].row.version, work'[r].row.state = work[r].row.state
  PROVE  PublicInv'
  <1>1. /\ UNCHANGED <<cases, operations>> /\ pc[r] # "done" /\ Public(r) /\ Writing(r)
    BY DEF Apart, tables, Ready, PublicInv, Public, Writing
  <1>2. History(work[r].case)' = History(work[r].case)
    BY <1>1 DEF History
  <1>3. VersionTells(r)' /\ Advances(r)'
    BY <1>1 DEF Public, VersionTells, Advances
  <1>4. AboutToPublish(r)'
    BY <1>1, <1>2 DEF Public, AboutToPublish, Writing
  <1> QED BY <1>1, <1>3, <1>4, ApartKeepsPublic DEF Public

LEMMA AppendOperationPublic ==
  ASSUME Ready, NEW r \in Requests, AppendOperation(r)
  PROVE  PublicInv'
  <1> DEFINE c == work[r].case
             o == LoggedOperation(r)
             row == [CaseRow(r) EXCEPT !.nextOp = @ + 1]
             w == [work[r] EXCEPT !.row = row, !.ops = @ \cup {o}]
  <1>1. ReadyToLog(r) /\ UNCHANGED seen /\ Goto(r, "logged", w)
    BY DEF AppendOperation
  <1>2. /\ Active(r) /\ c \in CaseKeys /\ CaseRow(r) \in Row /\ work[r].ops = {}
    BY <1>1, BeforeLogging DEF Ready
  <1>3. /\ TypeOK /\ RequestInv(r) /\ work[r] \in Work /\ Public(r)
    BY <1>2, ActorParts DEF Ready, TrailInv, PublicInv, Public
  <1>4. /\ row.published = CaseRow(r).published /\ row.version = CaseRow(r).version
        /\ row.state = CaseRow(r).state
    BY <1>2 DEF Row
  <1> HIDE DEF o, row
  <1>5. /\ w.row = row /\ w.ops = work[r].ops \cup {o} /\ w.case = c
        /\ w.projects = work[r].projects /\ w.proj = work[r].proj /\ w.shown = work[r].shown
    BY <1>3 DEF Work
  <1> HIDE DEF w
  <1>6. /\ Apart(r) /\ Kind(r)' = Kind(r) /\ pc'[r] = "logged" /\ work'[r] = w /\ seen' = seen
    BY <1>1, <1>3, GotoApart
  <1>7. (Writing(r))'
    BY <1>6 DEF Writing
  <1>8. CASE Kind(r) \in Publishings
    <2>1. pc[r] = "projected" /\ CaseRow(r) = work[r].row
      BY <1>1, <1>3, <1>8 DEF ReadyToLog, RequestInv, Carries, CaseRow, Writing, Decisions, Publishings
    <2> QED BY <1>2, <1>4, <1>5, <1>6, <1>8, <2>1, PublishingKeepsPublic
  <1>9. CASE Kind(r) \notin Publishings /\ Writing(r)
    <2>1. CaseRow(r) = work[r].row
      BY <1>3, <1>9 DEF RequestInv, Carries, CaseRow
    <2>2. /\ Kind(r) = "create" => work[r].row.published = FALSE
          /\ Kind(r) # "create" =>
               /\ work[r].row.published = cases[c].published
               /\ cases[c].version <= work[r].row.version
               /\ work[r].row.version = cases[c].version => work[r].row.state = cases[c].state
      BY <1>3, <1>9 DEF Public, Advances, AboutToPublish
    <2> QED BY <1>2, <1>4, <1>5, <1>6, <1>7, <1>9, <2>1, <2>2, PlainKeepsPublic
  <1>10. CASE Kind(r) \notin Publishings /\ ~Writing(r)
    <2>1. CaseRow(r) = cases[c] /\ Kind(r) # "create"
      BY <1>1, <1>3, <1>10 DEF ReadyToLog, RequestInv, Carries, CaseRow, Writing
    <2>2. cases[c].version \in Nat
      BY <1>2, <2>1 DEF Row
    <2>3. cases[c].version <= cases[c].version
      BY <2>2
    <2> QED BY <1>2, <1>4, <1>5, <1>6, <1>7, <1>10, <2>1, <2>3, PlainKeepsPublic
  <1> QED BY <1>8, <1>9, <1>10

LEMMA WriteTrailPublic ==
  ASSUME Ready, NEW r \in Requests, WriteTrail(r)
  PROVE  PublicInv'
  <1> DEFINE a == Events(r, AuditNames[Kind(r)])
             b == Events(r, OutboxNames[Kind(r)])
             w == [work[r] EXCEPT !.audit = a, !.outbox = b]
  <1>1. /\ Active(r) /\ Writing(r) /\ pc[r] = "logged" /\ UNCHANGED seen
        /\ Goto(r, "recorded", w)
    BY DEF WriteTrail, Active, Writing
  <1>2. TypeOK /\ work[r] \in Work /\ Public(r)
    BY <1>1, ActorParts DEF Ready, TrailInv, PublicInv, Public
  <1> HIDE DEF a, b
  <1>3. /\ w.row = work[r].row /\ w.ops = work[r].ops /\ w.case = work[r].case
        /\ w.projects = work[r].projects /\ w.proj = work[r].proj /\ w.shown = work[r].shown
    BY <1>2 DEF Work
  <1> HIDE DEF w
  <1>4. /\ Apart(r) /\ Kind(r)' = Kind(r) /\ pc'[r] = "recorded" /\ work'[r] = w /\ seen' = seen
    BY <1>1, <1>2, GotoApart
  <1>5. CASE Kind(r) \in Publishings
    BY <1>1, <1>3, <1>4, <1>5, PublishingKeepsPublic
  <1>6. CASE Kind(r) \notin Publishings
    <2>1. (Writing(r))'
      BY <1>4 DEF Writing
    <2>2. /\ Kind(r) = "create" => work[r].row.published = FALSE
          /\ Kind(r) # "create" =>
               /\ work[r].row.published = cases[work[r].case].published
               /\ cases[work[r].case].version <= work[r].row.version
               /\ work[r].row.version = cases[work[r].case].version =>
                    work[r].row.state = cases[work[r].case].state
      BY <1>1, <1>2, <1>6 DEF Public, Advances, AboutToPublish
    <2> QED BY <1>1, <1>3, <1>4, <1>6, <2>1, <2>2, PlainKeepsPublic
  <1> QED BY <1>5, <1>6

\* A rule that changes the state bumps the version.
LEMMA RuleActionPublic ==
  ASSUME Ready, NEW r \in Requests, RulesRun(r),
         NEW row \in Row, NEW type, NEW from, NEW to, NEW events,
         RuleAction(r, row, type, from, to, events),
         row.published = work[r].row.published,
         \/ row.version = work[r].row.version /\ row.state = work[r].row.state
         \/ row.version = work[r].row.version + 1
  PROVE  PublicInv'
  <1> DEFINE c == work[r].case
             o == [case |-> c, id |-> OperationId(r), type |-> type, from |-> from, to |-> to,
                   by |-> r]
             next == [row EXCEPT !.nextOp = @ + 1]
             a == Events(r, {"rule.execute"})
             b == Events(r, events)
             w == [work[r] EXCEPT !.row = next, !.ops = @ \cup {o}, !.audit = @ \cup a,
                                  !.outbox = @ \cup b, !.fired = @ + 1]
  <1>1. /\ Active(r) /\ Writing(r) /\ Kind(r) = "transition" /\ UNCHANGED seen
        /\ Goto(r, "recorded", w)
    BY DEF RuleAction, RulesRun, Active, Writing
  <1>2. /\ TypeOK /\ work[r] \in Work /\ work[r].row \in Row /\ cases[c] \in Row /\ Public(r)
    BY <1>1, ActorParts DEF Ready, TrailInv, PublicInv, Public
  <1>3. next.published = row.published /\ next.version = row.version /\ next.state = row.state
    BY DEF Row
  <1>4. /\ work[r].row.published = cases[c].published /\ cases[c].version <= work[r].row.version
        /\ work[r].row.version = cases[c].version => work[r].row.state = cases[c].state
        /\ cases[c].version \in Nat /\ work[r].row.version \in Nat
    BY <1>1, <1>2 DEF Public, Advances, AboutToPublish, Publishings, Row
  <1> HIDE DEF o, next, a, b
  <1>5. /\ w.row = next /\ w.case = c /\ w.projects = work[r].projects /\ w.proj = work[r].proj
        /\ w.shown = work[r].shown
    BY <1>2 DEF Work
  <1> HIDE DEF w
  <1>6. /\ Apart(r) /\ Kind(r)' = Kind(r) /\ pc'[r] = "recorded" /\ work'[r] = w
    BY <1>1, <1>2, GotoApart
  <1>7. (Writing(r))'
    BY <1>6 DEF Writing
  <1>8. /\ next.published = cases[c].published /\ cases[c].version <= next.version
        /\ next.version = cases[c].version => next.state = cases[c].state
    BY <1>3, <1>4
  <1> QED BY <1>1, <1>5, <1>6, <1>7, <1>8, PlainKeepsPublic DEF Publishings

LEMMA RulesPublic ==
  ASSUME Ready, NEW r \in Requests, RuleSetState(r) \/ RuleUpdateValues(r) \/ RuleRecord(r)
  PROVE  PublicInv'
  <1>1. RulesRun(r)
    BY DEF RuleSetState, RuleUpdateValues, RuleRecord
  <1>2. /\ work[r].row \in Row /\ Bump(work[r].row) \in Row
        /\ Bump(work[r].row).version = work[r].row.version + 1
        /\ Bump(work[r].row).published = work[r].row.published
    <2>1. work[r].row \in Row
      BY <1>1, ActorParts DEF Ready, TrailInv, RulesRun, Active, Writing
    <2> QED BY <2>1, BumpType DEF Bump, Row
  <1>3. CASE RuleSetState(r)
    <2>1. PICK s \in States :
            RuleAction(r, [Bump(work[r].row) EXCEPT !.state = s], "state_change",
                       work[r].row.state, s, {"case.state.changed"})
      BY <1>3 DEF RuleSetState
    <2> DEFINE row == [Bump(work[r].row) EXCEPT !.state = s]
    <2>2. /\ row \in Row /\ row.version = work[r].row.version + 1
          /\ row.published = work[r].row.published
      BY <1>2 DEF Row
    <2>3. RuleAction(r, row, "state_change", work[r].row.state, s, {"case.state.changed"})
      BY <2>1
    <2> HIDE DEF row
    <2> QED BY <1>1, <2>2, <2>3, RuleActionPublic
  <1>4. CASE RuleUpdateValues(r)
    <2>1. PICK set \in Payload :
            RuleAction(r, IF DOMAIN set = {} THEN work[r].row
                          ELSE [Bump(work[r].row) EXCEPT !.fields = Overlay(set, @)],
                       "rule_update_values", None, None, {})
      BY <1>4 DEF RuleUpdateValues
    <2> DEFINE row == IF DOMAIN set = {} THEN work[r].row
                      ELSE [Bump(work[r].row) EXCEPT !.fields = Overlay(set, @)]
    <2>2. Overlay(set, Bump(work[r].row).fields) \in [Fields -> Values \cup {None}]
      BY <1>2, OverlayType DEF Row
    <2>3. /\ row \in Row /\ row.published = work[r].row.published
          /\ \/ row.version = work[r].row.version /\ row.state = work[r].row.state
             \/ row.version = work[r].row.version + 1
      BY <1>2, <2>2 DEF Row
    <2>4. RuleAction(r, row, "rule_update_values", None, None, {})
      BY <2>1
    <2> HIDE DEF row
    <2> QED BY <1>1, <2>3, <2>4, RuleActionPublic
  <1>5. CASE RuleRecord(r)
    <2>1. PICK events : RuleAction(r, work[r].row, "rule_action", None, None, events)
      BY <1>5 DEF RuleRecord
    <2> QED BY <1>1, <1>2, <2>1, RuleActionPublic
  <1> QED BY <1>3, <1>4, <1>5

-----------------------------------------------------------------------------
(* The commit. *)

\* Operations after a publication do not change what was before it.
LEMMA BeforeKept ==
  ASSUME NEW H, NEW ops, NEW o \in H, o.id \in Nat, NEW next \in Nat, o.id < next,
         \A q \in ops : q.id \in Nat /\ next <= q.id
  PROVE  Before(o, Bearing(H \cup ops)) = Before(o, Bearing(H))
  BY DEF Before, Bearing

LEMMA CommitPublic ==
  ASSUME Ready, NEW r \in Requests, pc[r] = "recorded", NEW told, Install(r), Finish(r, told)
  PROVE  PublicInv'
  <1> DEFINE row == work[r].row
             ops == work[r].ops
  <1>1. /\ CaseInv /\ HistoryExplainsState /\ ProjectionConsistent /\ HoldsBack(r) /\ Public(r)
        /\ Active(r)
    BY DEF Ready, HistoryInv, TrailInv, PublicInv, Public, Active
  <1>2. PICK c \in CaseKeys :
          /\ c = work[r].case /\ TypeOK /\ RequestInv(r) /\ Writing(r) /\ lock[c] = r /\ row \in Row
          /\ cases' = [cases EXCEPT ![c] = row] /\ operations' = operations \cup ops
          /\ cmd' = cmd /\ pc'[r] = "done" /\ work'[r] = NoWork /\ OthersStand(r)
          /\ row # None /\ (Kind(r) = "create" <=> ~Exists(c))
    BY <1>1, CommitParts
  <1>3. /\ projection' = IF work[r].projects THEN [projection EXCEPT ![c] = work[r].proj]
                                            ELSE projection
        /\ shownOps' = IF work[r].projects
                         THEN {s \in shownOps : s[1] # c} \cup ({c} \X work[r].shown)
                         ELSE shownOps
    BY <1>2 DEF Install
  <1>4. /\ History(c)' = History(c) \cup ops /\ cases'[c] = row
        /\ \A d \in CaseKeys \ {c} : History(d)' = History(d) /\ cases'[d] = cases[d]
    BY <1>2 DEF History, TypeOK, RequestInv, ContinuesHistory
  <1>5. /\ \A q : Kind(q)' = Kind(q)
        /\ \A q \in ops : q.by = r
    BY <1>1, <1>2 DEF Kind, HoldsBack
  <1>6. /\ NextId(c) \in Nat
        /\ \A q \in History(c) : q.id \in Nat /\ q.id < NextId(c)
        /\ \A q \in ops : q.id \in Nat /\ NextId(c) <= q.id
    <2>1. Numbers(History(c), 1, NextId(c)) /\ Numbers(ops, NextId(c), row.nextOp)
      BY <1>1, <1>2 DEF CaseInv, HistoryNumbered, RequestInv, ContinuesHistory
    <2>2. /\ NextId(c) \in Nat /\ \A q \in History(c) \cup ops : q.id \in Nat
      BY <1>1, <1>2, ActorParts DEF NextId, TypeOK, Row, Exists, History, Operation, Work
    <2> QED BY <2>1, <2>2 DEF Numbers
  <1>7. ASSUME NEW d \in CaseKeys \ {c}
        PROVE  IF cases'[d] # None /\ cases'[d].published
                 THEN projection'[d] # None /\ \E o \in operations' : ShownBy(o, d)'
                 ELSE projection'[d] = None /\ ShownIds(d)' = {}
    <2>1. cases'[d] = cases[d] /\ projection'[d] = projection[d] /\ ShownIds(d)' = ShownIds(d)
      <3>1. {q \in shownOps' : q[1] = d} = {q \in shownOps : q[1] = d}
        BY <1>3, <1>7
      <3> QED BY <1>2, <1>3, <1>4, <1>7, <3>1 DEF TypeOK, ShownIds
    <2>2. History(d)' = History(d) /\ Publications(d)' = Publications(d)
      BY <1>4, <1>5, <1>7 DEF Publications
    <2>3. \A o : ShownBy(o, d)' = ShownBy(o, d)
      BY <2>1, <2>2 DEF ShownBy, IsLatest, LeadsTo, Before, Bearing
    <2> QED BY <1>1, <1>2, <2>1, <2>3 DEF ProjectionConsistent, Exists
  <1>8. IF row.published THEN projection'[c] # None /\ \E o \in operations' : ShownBy(o, c)'
                         ELSE projection'[c] = None /\ ShownIds(c)' = {}
    <2>1. CASE Kind(r) = "publish"
      <3>1. /\ row.published = TRUE /\ work[r].projects = TRUE /\ work[r].proj # None
            /\ work[r].proj.state = cases[c].state
            /\ work[r].shown \subseteq {o.id : o \in History(c)}
            /\ \E o \in ops : ops = {o}
        BY <1>1, <1>2, <2>1 DEF Public, AboutToPublish, Publishings
      <3>2. projection'[c] = work[r].proj /\ ShownIds(c)' = work[r].shown
        <4>1. {q \in shownOps' : q[1] = c} = {c} \X work[r].shown
          BY <1>3, <3>1
        <4>2. {q[2] : q \in {c} \X work[r].shown} = work[r].shown
          <5> DEFINE pairs == {c} \X work[r].shown
          <5>1. \A i \in work[r].shown : \E q \in pairs : i = q[2]
            <6> TAKE i \in work[r].shown
            <6>1. <<c, i>> \in pairs /\ i = <<c, i>>[2]
              OBVIOUS
            <6> QED BY <6>1
          <5>2. \A q \in pairs : q[2] \in work[r].shown
            OBVIOUS
          <5> HIDE DEF pairs
          <5>3. {q[2] : q \in pairs} \subseteq work[r].shown
            BY <5>2
          <5>4. work[r].shown \subseteq {q[2] : q \in pairs}
            BY <5>1
          <5>5. {q[2] : q \in pairs} = work[r].shown
            BY <5>3, <5>4
          <5> QED BY <5>5 DEF pairs
        <4> QED BY <1>2, <1>3, <3>1, <4>1, <4>2 DEF TypeOK, ShownIds
      <3>3. PICK o \in ops : ops = {o}
        BY <3>1
      <3>4. o \in operations' /\ o.by = r /\ Kind(o.by) = "publish"
        BY <1>2, <1>5, <2>1
      <3>5. IsLatest(o, Publications(c)')
        <4>1. o \in Publications(c)'
          BY <1>4, <1>5, <3>3, <3>4 DEF Publications
        <4>2. \A q \in Publications(c)' : q.id <= o.id
          BY <1>4, <1>6, <3>3 DEF Publications
        <4> QED BY <4>1, <4>2 DEF IsLatest
      <3>6. \A i \in work[r].shown : i < o.id
        BY <1>6, <3>1, <3>3
      <3>7. Before(o, Bearing(History(c) \cup ops)) = Bearing(History(c))
        BY <1>6, <3>3 DEF Before, Bearing
      <3>8. LeadsTo(Bearing(History(c)), cases[c].state)
        BY <1>1, <1>2, <2>1 DEF HistoryExplainsState
      <3>9. ShownBy(o, c)'
        BY <1>4, <3>1, <3>2, <3>5, <3>6, <3>7, <3>8
        DEF ShownBy, IsLatest, LeadsTo, Before, Bearing
      <3> QED BY <3>1, <3>2, <3>4, <3>9
    <2>2. CASE Kind(r) = "unpublish"
      <3>1. /\ row.published = FALSE /\ work[r].projects = TRUE /\ work[r].proj = None
            /\ work[r].shown = {}
        BY <1>1, <1>2, <2>2 DEF Public, AboutToPublish, Publishings
      <3>2. {q \in shownOps' : q[1] = c} = {}
        BY <1>3, <3>1
      <3> QED BY <1>2, <1>3, <3>1, <3>2 DEF TypeOK, ShownIds
    <2>3. CASE Kind(r) \notin Publishings
      <3>1. /\ work[r].projects = FALSE /\ projection' = projection /\ shownOps' = shownOps
            /\ row.published = IF Kind(r) = "create" THEN FALSE ELSE cases[c].published
        BY <1>1, <1>2, <1>3, <2>3 DEF Public, AboutToPublish, Publishings
      <3>2. ShownIds(c)' = ShownIds(c)
        BY <3>1 DEF ShownIds
      <3>3. Publications(c)' = Publications(c)
        BY <1>4, <1>5, <2>3 DEF Publications, Publishings
      <3>4. ASSUME NEW o \in operations, ShownBy(o, c)
            PROVE  ShownBy(o, c)'
        <4>1. o \in History(c)
          BY <3>4 DEF ShownBy, IsLatest, Publications
        <4>2. Before(o, Bearing(History(c) \cup ops)) = Before(o, Bearing(History(c)))
          BY <1>6, <4>1, BeforeKept
        <4> QED
          BY <1>4, <3>1, <3>2, <3>3, <3>4, <4>2 DEF ShownBy, IsLatest, LeadsTo, Before, Bearing
      <3>5. CASE row.published
        <4>1. Exists(c) /\ cases[c].published
          BY <1>2, <3>1, <3>5
        <4>2. projection[c] # None /\ \E o \in operations : ShownBy(o, c)
          BY <1>1, <4>1 DEF ProjectionConsistent
        <4> QED BY <1>2, <3>1, <3>4, <3>5, <4>2
      <3>6. CASE ~row.published
        <4>1. ~(Exists(c) /\ cases[c].published)
          BY <1>2, <3>1, <3>6
        <4> QED BY <1>1, <3>1, <3>2, <3>6, <4>1 DEF ProjectionConsistent
      <3> QED BY <3>5, <3>6
    <2> QED BY <2>1, <2>2, <2>3 DEF Publishings
  <1>9. ProjectionConsistent'
    BY <1>2, <1>4, <1>7, <1>8 DEF ProjectionConsistent, Exists
  <1>10. Public(r)'
    <2>1. ~Active(r)' /\ ~Writing(r)' /\ pc'[r] \notin {"projected", "logged", "recorded"}
      BY <1>2 DEF Active, Writing
    <2>2. work'[r].projects = FALSE /\ work'[r].proj = None /\ work'[r].shown = {}
      BY <1>2, NoWorkParts
    <2> QED BY <2>1, <2>2 DEF Public, VersionTells, Advances, AboutToPublish
  <1>11. ASSUME NEW q \in Requests \ {r}
         PROVE  Public(q)'
    <2>1. /\ pc'[q] = pc[q] /\ work'[q] = work[q] /\ seen'[q] = seen[q]
          /\ RequestInv(q) /\ Public(q)
      BY <1>1, <1>2, <1>11 DEF OthersStand, CaseInv, Ready, PublicInv, Public
    <2>2. Writing(q) => work[q].case \in CaseKeys \ {c}
      BY <1>1, <1>2, <1>11, <2>1, ActorParts DEF RequestInv, HoldsLocks, Active, Writing
    <2>3. Writing(q) =>
            History(work[q].case)' = History(work[q].case)
              /\ cases'[work[q].case] = cases[work[q].case]
      <3>1. ASSUME NEW d \in CaseKeys \ {c}, d = work[q].case
            PROVE  History(work[q].case)' = History(d)
        BY <1>4, <2>1, <3>1 DEF History
      <3> QED BY <1>4, <2>2, <3>1
    <2>4. VersionTells(q)'
      <3> SUFFICES ASSUME Active(q), Kind(q) = "publish"
                   PROVE  /\ seen[q].version <= cases'[work[q].case].version
                          /\ seen[q].version = cases'[work[q].case].version =>
                               seen[q].state = cases'[work[q].case].state
        BY <1>5, <2>1 DEF VersionTells, Active
      <3>1. /\ seen[q] \in Row /\ work[q].case \in CaseKeys /\ Exists(work[q].case)
            /\ cases[work[q].case] \in Row
        BY <1>1, <2>1, ActorParts DEF Publishings, RequestInv, OnCase
      <3>2. CASE work[q].case # c
        BY <1>4, <2>1, <3>1, <3>2 DEF Public, VersionTells
      <3>3. CASE work[q].case = c
        <4>1. /\ cases[c].version <= row.version
              /\ row.version = cases[c].version => row.state = cases[c].state
          BY <1>1, <1>2, <3>1, <3>3 DEF Public, Advances
        <4>2. seen[q].version \in Nat /\ cases[c].version \in Nat /\ row.version \in Nat
          BY <1>2, <3>1, <3>3 DEF Row
        <4> QED BY <1>4, <2>1, <3>3, <4>1, <4>2 DEF Public, VersionTells
      <3> QED BY <3>2, <3>3
    <2>5. Advances(q)'
      BY <1>5, <2>1, <2>3 DEF Public, Advances, Writing
    <2>6. AboutToPublish(q)'
      BY <1>5, <2>1, <2>3 DEF Public, AboutToPublish, Writing
    <2> QED BY <2>4, <2>5, <2>6 DEF Public
  <1> QED BY <1>9, <1>10, <1>11 DEF PublicInv, Public

-----------------------------------------------------------------------------
(* The theorems. *)

LEMMA PublicInit ==
  ASSUME Init
  PROVE  PublicInv
  <1>1. /\ cases = [c \in CaseKeys |-> None] /\ projection = [c \in CaseKeys |-> None]
        /\ shownOps = {} /\ \A r \in Requests : pc[r] = "idle" /\ work[r] = NoWork
    BY DEF Init, InitTables
  <1>2. ProjectionConsistent
    BY <1>1 DEF ProjectionConsistent, Exists, ShownIds
  <1>3. \A r \in Requests : Public(r)
    <2> TAKE r \in Requests
    <2>1. ~Active(r) /\ ~Writing(r) /\ pc[r] \notin {"projected", "logged", "recorded"}
      BY <1>1 DEF Active, Writing
    <2>2. work[r].projects = FALSE /\ work[r].proj = None /\ work[r].shown = {}
      BY <1>1, NoWorkParts
    <2> QED BY <2>1, <2>2 DEF Public, VersionTells, Advances, AboutToPublish
  <1> QED BY <1>2, <1>3 DEF PublicInv, Public

LEMMA PublicStutters ==
  ASSUME Ready, UNCHANGED vars
  PROVE  PublicInv'
  <1>1. UNCHANGED <<cases, operations, projection, shownOps, pc, cmd, seen, work>>
    BY DEF vars, tables, request
  <1>2. \A q : Kind(q)' = Kind(q)
    BY <1>1 DEF Kind
  <1>3. \A c : History(c)' = History(c) /\ Publications(c)' = Publications(c)
    BY <1>1, <1>2 DEF History, Publications
  <1>4. ProjectionConsistent'
    BY <1>1, <1>3
    DEF Ready, PublicInv, ProjectionConsistent, Exists, ShownBy, ShownIds, LeadsTo, IsLatest,
        Before, Bearing
  <1>5. \A r \in Requests : Public(r)'
    BY <1>1, <1>2, <1>3
    DEF Ready, PublicInv, Public, VersionTells, Advances, AboutToPublish, Active, Writing
  <1> QED BY <1>4, <1>5 DEF PublicInv, Public

\* routes.ts, postPublish: at every statement of every request, a version stands for one
\* state, and a publication under way shows the state the case is in.
THEOREM PublicInvariance == Spec => []PublicInv
  <1>1. Init => PublicInv
    BY PublicInit
  <1>2. HistoryInv /\ TrailInv /\ PublicInv /\ [Next]_vars => PublicInv'
    <2> SUFFICES ASSUME Ready, [Next]_vars
                 PROVE  PublicInv'
      BY DEF Ready
    <2>1. CASE UNCHANGED vars
      BY <2>1, PublicStutters
    <2>2. ASSUME NEW r \in Requests, Commit(r) \/ CommitUnacknowledged(r)
          PROVE  PublicInv'
      BY <2>2, CommitPublic DEF Commit, CommitUnacknowledged
    <2> QED
      BY <2>1, <2>2, ReceivePublic, EndPublic, EntryPublic, AllocateNumberPublic,
         UpdateCasePublic, ProjectPublic, AppendOperationPublic, WriteTrailPublic, RulesPublic
      DEF Next, Advance, Terminated
  <1> QED BY <1>1, <1>2, HistoryInvariance, TrailInvariance, PTL DEF Spec

\* postPublish: whatever is edited, moved, published and withdrawn at the same time, what
\* a published case shows is the state it was in at its last publication, with operations
\* from before it, and a case that is not published shows nothing.
THEOREM ProjectionsConsistent == Spec => []ProjectionConsistent
  <1>1. PublicInv => ProjectionConsistent
    BY DEF PublicInv
  <1> QED BY <1>1, PublicInvariance, PTL

-----------------------------------------------------------------------------
(***************************************************************************)
(* The commands take effect one at a time: CaseCommands implements         *)
(* CaseLedger, with the commits as its steps.                              *)
(***************************************************************************)

Fits(r) ==
  /\ RowIsIntended(r) /\ RowMovesOn(r) /\ PageIsIntended(r) /\ SubmissionIsIntended(r)
  /\ pc[r] = "checked" => ReadsVersion(r)

AllInv == HistoryInv /\ TrailInv /\ PublicInv /\ LedgerInv

-----------------------------------------------------------------------------
(* Who does not move, and whose rows do not, still fits. *)

\* The row a command makes depends on its command, its submission and the row it changes.
LEMMA IntendedStands ==
  ASSUME NEW q, cmd'[q] = cmd[q],
         Kind(q) = "approve" => work'[q].pend.set = work[q].pend.set,
         IF Kind(q) = "create"
           THEN counter'[cmd[q].year] = counter[cmd[q].year]
           ELSE work'[q].case = work[q].case /\ cases'[work[q].case] = cases[work[q].case]
  PROVE  Intended(q)' = Intended(q) /\ ChangesFields(q)' = ChangesFields(q)
  <1>1. Kind(q)' = Kind(q)
    BY DEF Kind
  <1>2. Kind(q) \in {"update", "approve"} => Submitted(q)' = Submitted(q)
    BY <1>1 DEF Submitted
  <1>3. ChangesFields(q)' = ChangesFields(q)
    BY <1>1, <1>2 DEF ChangesFields
  <1>4. Kind(q) # "create" => Updated(q)' = Updated(q)
    BY <1>1, <1>2 DEF Updated, Bump
  <1> QED BY <1>1, <1>3, <1>4 DEF Intended, Publishings, ChangesFields

LEMMA FitsStands ==
  ASSUME NEW q, Fits(q), pc'[q] = pc[q], cmd'[q] = cmd[q], work'[q] = work[q],
         Writing(q) /\ Kind(q) = "create" => counter'[cmd[q].year] = counter[cmd[q].year],
         Writing(q) /\ Kind(q) # "create" => cases'[work[q].case] = cases[work[q].case],
         Active(q) /\ Kind(q) \in Decisions =>
           pending'[work[q].pid].set = pending[work[q].pid].set
  PROVE  Fits(q)'
  <1>1. Kind(q)' = Kind(q) /\ Writing(q)' = Writing(q) /\ Active(q)' = Active(q)
    BY DEF Kind, Writing, Active
  <1>2. RowIsIntended(q)'
    BY <1>1, IntendedStands DEF Fits, RowIsIntended, Counted
  <1>3. RowMovesOn(q)'
    BY <1>1 DEF Fits, RowMovesOn
  <1>4. PageIsIntended(q)' /\ SubmissionIsIntended(q)'
    BY <1>1 DEF Fits, PageIsIntended, SubmissionIsIntended
  <1>5. (pc[q] = "checked" => ReadsVersion(q))'
    BY <1>1 DEF Fits, ReadsVersion, ChangesFields, Submitted
  <1> QED BY <1>2, <1>3, <1>4, <1>5 DEF Fits

LEMMA ApartFits ==
  ASSUME LedgerInv, NEW r \in Requests, Apart(r), Fits(r)'
  PROVE  LedgerInv'
  <1>1. UNCHANGED <<counter, cases, pending>>
    BY DEF Apart, tables
  <1>2. ASSUME NEW q \in Requests \ {r}
        PROVE  Fits(q)'
    BY <1>1, <1>2, FitsStands DEF LedgerInv, Fits, Apart, OthersStand
  <1> QED BY <1>2 DEF LedgerInv, Fits

-----------------------------------------------------------------------------
(* Before the row is written. *)

LEMMA NotWritingFits ==
  ASSUME LedgerInv, NEW r \in Requests, Apart(r), ~(Writing(r))', SubmissionIsIntended(r)',
         (pc[r] = "checked" => ReadsVersion(r))'
  PROVE  LedgerInv'
  <1>1. Fits(r)'
    BY DEF Fits, RowIsIntended, RowMovesOn, PageIsIntended
  <1> QED BY <1>1, ApartFits

LEMMA ReceiveFits ==
  ASSUME AllInv, NEW r \in Requests, ReceiveCreate(r) \/ ReceiveOnCase(r) \/ ReceiveDecision(r)
  PROVE  LedgerInv'
  <1>1. TypeOK
    BY DEF AllInv, TrailInv, CaseInv
  <1>2. PICK k, row, w :
          /\ Accept(r, k, row, w)
          /\ k.kind \in Decisions => w.pend = pending[w.pid]
    <2>1. CASE ReceiveCreate(r) \/ ReceiveOnCase(r)
      BY <2>1 DEF ReceiveCreate, ReceiveOnCase, Decisions
    <2>2. CASE ReceiveDecision(r)
      <3> DEFINE w(k) == [NoWork EXCEPT !.case = pending[k.pid].case, !.pid = k.pid,
                                        !.pend = pending[k.pid]]
      <3>1. PICK k \in Commands : Accept(r, k, cases[pending[k.pid].case], w(k))
        BY <2>2 DEF ReceiveDecision
      <3>2. w(k).pend = pending[w(k).pid]
        BY DEF NoWork
      <3> HIDE DEF w
      <3> QED BY <3>1, <3>2
    <2> QED BY <2>1, <2>2
  <1>3. Apart(r) /\ pc'[r] = "ready" /\ work'[r] = w /\ cmd'[r] = k /\ pending' = pending
    <2>1. Apart(r) /\ pc'[r] = "ready" /\ work'[r] = w /\ cmd'[r] = k
      BY <1>1, <1>2, AcceptApart
    <2> QED BY <2>1 DEF Apart, tables
  <1>4. ~(Writing(r))' /\ (pc[r] = "checked" => ReadsVersion(r))'
    BY <1>3 DEF Writing
  <1>5. SubmissionIsIntended(r)'
    BY <1>2, <1>3 DEF SubmissionIsIntended, Kind
  <1> QED BY <1>3, <1>4, <1>5, NotWritingFits DEF AllInv

LEMMA EndFits ==
  ASSUME AllInv, NEW r \in Requests,
         \/ Refuse(r) \/ DecisionConflict(r) \/ RejectTransition(r) \/ UpdateConflict(r)
         \/ RejectSelection(r) \/ Fail(r)
  PROVE  LedgerInv'
  <1>1. TypeOK
    BY DEF AllInv, TrailInv, CaseInv
  <1>2. UNCHANGED tables /\ \E told : Finish(r, told)
    BY DEF Refuse, DecisionConflict, RejectTransition, UpdateConflict, RejectSelection, Fail,
           ReadyToUpdate, Abandon, Undo, Discard
  <1>3. Apart(r) /\ pc'[r] = "done"
    BY <1>1, <1>2, FinishApart
  <1>4. ~(Writing(r))' /\ SubmissionIsIntended(r)' /\ (pc[r] = "checked" => ReadsVersion(r))'
    BY <1>3 DEF Writing, SubmissionIsIntended, Active
  <1> QED BY <1>3, <1>4, NotWritingFits DEF AllInv

\* The UPDATE of the submission sets its status and nothing else.
LEMMA EntryFits ==
  ASSUME AllInv, NEW r \in Requests, InsertPending(r) \/ DecidePending(r) \/ ReadVersion(r)
  PROVE  LedgerInv'
  <1>1. Active(r) /\ (ReadVersion(r) => ReadsVersion(r))
    BY DEF InsertPending, DecidePending, ReadVersion, AtEntry, Active
  <1>2. /\ TypeOK /\ work[r] \in Work /\ SubmissionIsIntended(r)
        /\ Kind(r) \in Decisions => work[r].pend \in PendingRow
    BY <1>1, ActorParts DEF AllInv, TrailInv, LedgerInv
  <1>3. CASE ReadVersion(r)
    <2>1. /\ Apart(r) /\ Kind(r)' = Kind(r) /\ pc'[r] = "checked" /\ work'[r] = work[r]
          /\ cmd' = cmd /\ pending' = pending
      BY <1>2, <1>3, ReadVersionApart DEF Apart, tables
    <2>2. ReadsVersion(r)' /\ ~(Writing(r))'
      BY <1>1, <1>3, <2>1 DEF ReadsVersion, ChangesFields, Submitted, Writing
    <2>3. SubmissionIsIntended(r)'
      BY <1>1, <1>2, <2>1 DEF SubmissionIsIntended
    <2> QED BY <2>1, <2>2, <2>3, NotWritingFits DEF AllInv
  <1>4. CASE InsertPending(r) \/ DecidePending(r)
    <2> DEFINE u(p, pend) == [work[r] EXCEPT !.pid = p, !.pend = pend]
               v == [work[r] EXCEPT !.pend.status = Verdict(r)]
    <2>1. /\ UNCHANGED seen
          /\ \/ Kind(r) = "stage" /\ \E p, pend : Goto(r, "open", u(p, pend))
             \/ Kind(r) \in Decisions /\ Goto(r, "open", v)
      BY <1>4 DEF InsertPending, DecidePending
    <2>2. Kind(r) \in Decisions => v.pend.set = work[r].pend.set /\ v.pid = work[r].pid
      BY <1>2 DEF Work, PendingRow
    <2> HIDE DEF u, v
    <2>3. /\ Apart(r) /\ Kind(r)' = Kind(r) /\ pc'[r] = "open" /\ pending' = pending
          /\ Kind(r) \in Decisions => work'[r] = v
      BY <1>2, <2>1, GotoApart DEF tables, Decisions
    <2>4. SubmissionIsIntended(r)'
      BY <1>1, <1>2, <2>2, <2>3 DEF SubmissionIsIntended
    <2>5. ~(Writing(r))' /\ (pc[r] = "checked" => ReadsVersion(r))'
      BY <2>3 DEF Writing
    <2> QED BY <2>3, <2>4, <2>5, NotWritingFits DEF AllInv
  <1> QED BY <1>3, <1>4

-----------------------------------------------------------------------------
(* Statements that write the row. *)

\* What a statement leaves is the row its command makes of the present one.
LEMMA RowFits ==
  ASSUME AllInv, NEW r \in Requests, Active(r), Apart(r), UNCHANGED cmd, (Writing(r))',
         Kind(r) # "transition", Kind(r) # "create" => work'[r].case = work[r].case,
         work'[r].pid = work[r].pid, work'[r].pend = work[r].pend,
         work'[r].row = IF pc'[r] \in {"logged", "recorded"}
                          THEN [Intended(r) EXCEPT !.nextOp = @ + 1] ELSE Intended(r),
         Kind(r) = "publish" /\ work'[r].projects =>
           work'[r].proj.fields = [f \in cmd[r].pick |-> cases[work[r].case].fields[f]]
  PROVE  LedgerInv'
  <1>1. UNCHANGED <<counter, cases, pending>> /\ Kind(r)' = Kind(r)
    BY DEF Apart, tables, Kind
  <1>2. Intended(r)' = Intended(r)
    BY <1>1, IntendedStands
  <1>3. RowIsIntended(r)'
    BY <1>2 DEF RowIsIntended, Counted
  <1>4. RowMovesOn(r)' /\ PageIsIntended(r)'
    BY <1>1 DEF RowMovesOn, PageIsIntended
  <1>5. SubmissionIsIntended(r)'
    BY <1>1 DEF SubmissionIsIntended, AllInv, LedgerInv
  <1>6. (pc[r] = "checked" => ReadsVersion(r))'
    BY DEF Writing
  <1> QED BY <1>3, <1>4, <1>5, <1>6, ApartFits DEF Fits, AllInv

\* The row of a transition is ahead of the present one, along configured transitions.
MovesOn(current, row) ==
  /\ current.version < row.version /\ current.nextOp <= row.nextOp
  /\ \E s \in States : Allowed(current.state, s) /\ Ledger!Reaches(s, row.state)

LEMMA TransitionFits ==
  ASSUME AllInv, NEW r \in Requests, Active(r), Apart(r), UNCHANGED cmd, (Writing(r))',
         Kind(r) = "transition", work'[r].case = work[r].case,
         NEW row, work'[r].row = row, MovesOn(cases[work[r].case], row),
         pc'[r] \in {"logged", "recorded"} => cases[work[r].case].nextOp < row.nextOp
  PROVE  LedgerInv'
  <1>1. UNCHANGED cases /\ Kind(r)' = Kind(r)
    BY DEF Apart, tables, Kind
  <1>2. RowMovesOn(r)'
    BY <1>1 DEF RowMovesOn, MovesOn, Allowed, Ledger!Reaches
  <1>3. RowIsIntended(r)' /\ PageIsIntended(r)' /\ SubmissionIsIntended(r)'
    BY <1>1 DEF RowIsIntended, PageIsIntended, SubmissionIsIntended, Decisions
  <1>4. (pc[r] = "checked" => ReadsVersion(r))'
    BY DEF Writing
  <1> QED BY <1>2, <1>3, <1>4, ApartFits DEF Fits, AllInv

LEMMA AllocateNumberFits ==
  ASSUME AllInv, NEW r \in Requests, AllocateNumber(r)
  PROVE  LedgerInv'
  <1> DEFINE w(c) == [work[r] EXCEPT !.case = c, !.row = Intended(r)]
  <1>1. /\ Active(r) /\ Kind(r) = "create" /\ UNCHANGED seen
        /\ \E c \in CaseKeys : Goto(r, "held", w(c))
    <2>1. Kind(r) = "create" /\ Active(r) /\ UNCHANGED seen
      BY DEF AllocateNumber, Active
    <2>2. Intended(r) = NewRow(cmd[r], counter[cmd[r].year] + 1)
      BY <2>1 DEF Intended, Publishings, ChangesFields
    <2> QED BY <2>1, <2>2 DEF AllocateNumber
  <1>2. TypeOK /\ work[r] \in Work
    BY <1>1, ActorParts DEF AllInv, TrailInv
  <1>3. \A c : /\ w(c).row = Intended(r) /\ w(c).pid = work[r].pid /\ w(c).pend = work[r].pend
    BY <1>2 DEF Work
  <1> HIDE DEF w
  <1>4. /\ Apart(r) /\ UNCHANGED cmd /\ pc'[r] = "held" /\ work'[r].row = Intended(r)
        /\ work'[r].pid = work[r].pid /\ work'[r].pend = work[r].pend
    BY <1>1, <1>2, <1>3, GotoApart
  <1> QED BY <1>1, <1>4, RowFits DEF Writing

\* The compare-and-swap holds the row that was checked, and locks it.
LEMMA UpdateCaseFits ==
  ASSUME AllInv, NEW r \in Requests, UpdateCase(r)
  PROVE  LedgerInv'
  <1> DEFINE c == work[r].case
             w == [work[r] EXCEPT !.row = Updated(r)]
  <1>1. /\ Active(r) /\ ~Writing(r) /\ ReadyToUpdate(r) /\ CasHolds(r) /\ UNCHANGED seen
        /\ Goto(r, "held", w)
    BY DEF UpdateCase, ReadyToUpdate, Active, Writing
  <1>2. /\ TypeOK /\ RequestInv(r) /\ work[r] \in Work /\ AboutToPublish(r)
        /\ pc[r] = "checked" => ReadsVersion(r)
    BY <1>1, ActorParts DEF AllInv, TrailInv, PublicInv, LedgerInv
  <1>3. Kind(r) # "create" /\ (Kind(r) = "transition" \/ Kind(r) \in Publishings \/ ChangesFields(r))
    BY <1>1, <1>2 DEF ReadyToUpdate, ReadsVersion, RequestInv, Carries, Publishings
  <1>4. cases[c] \in Row /\ cmd[r] \in Command
    BY <1>1, <1>3, ActorParts DEF AllInv, TrailInv
  <1>5. /\ w.row = Updated(r) /\ w.case = c /\ w.projects = work[r].projects
        /\ w.pid = work[r].pid /\ w.pend = work[r].pend
    BY <1>2 DEF Work
  <1> HIDE DEF w
  <1>6. /\ Apart(r) /\ UNCHANGED cmd /\ pc'[r] = "held" /\ work'[r] = w
    BY <1>1, <1>2, GotoApart
  <1>7. CASE Kind(r) = "transition"
    <2>1. /\ cmd[r].to \in States /\ Allowed(cases[c].state, cmd[r].to)
      BY <1>1, <1>4, <1>7, CommandParts
      DEF Kind, CasHolds, ReadyToUpdate, Publishings
    <2>2. Updated(r) = [Bump(cases[c]) EXCEPT !.state = cmd[r].to]
      BY <1>7 DEF Updated
    <2>3. /\ Updated(r).version = cases[c].version + 1 /\ Updated(r).nextOp = cases[c].nextOp
          /\ Updated(r).state = cmd[r].to
      BY <1>4, <2>2 DEF Bump, Row
    <2>4. Ledger!Reaches(cmd[r].to, cmd[r].to)
      BY DEF Ledger!Reaches
    <2>5. cases[c].version < cases[c].version + 1 /\ cases[c].nextOp <= cases[c].nextOp
      BY <1>4 DEF Row
    <2>6. MovesOn(cases[c], Updated(r))
      BY <2>1, <2>3, <2>4, <2>5 DEF MovesOn
    <2> QED BY <1>1, <1>5, <1>6, <1>7, <2>6, TransitionFits DEF Writing
  <1>8. CASE Kind(r) # "transition"
    <2>1. Updated(r) = Intended(r)
      BY <1>3, <1>8 DEF Intended
    <2>2. ~work'[r].projects
      BY <1>1, <1>2, <1>5, <1>6 DEF AboutToPublish, Writing
    <2> QED BY <1>1, <1>5, <1>6, <1>8, <2>1, <2>2, RowFits DEF Writing
  <1> QED BY <1>7, <1>8

LEMMA ProjectFits ==
  ASSUME AllInv, NEW r \in Requests, Project(r)
  PROVE  LedgerInv'
  <1> DEFINE c == work[r].case
             page == [f \in cmd[r].pick |-> work[r].row.fields[f]]
             proj == [state |-> seen[r].state, fields |-> page]
             v == [work[r] EXCEPT !.projects = TRUE, !.shown = cmd[r].ops, !.proj = proj]
             w == [work[r] EXCEPT !.projects = TRUE]
  <1>1. /\ Active(r) /\ Writing(r) /\ pc[r] = "held" /\ Kind(r) \in Publishings /\ UNCHANGED seen
        /\ Kind(r) = "publish" => Goto(r, "projected", v)
        /\ Kind(r) # "publish" => Goto(r, "projected", w)
    BY DEF Project, Active, Writing
  <1>2. /\ TypeOK /\ work[r] \in Work /\ cases[c] \in Row /\ RowIsIntended(r)
    BY <1>1, ActorParts DEF AllInv, TrailInv, LedgerInv, Publishings
  <1>3. work[r].row = Updated(r) /\ Intended(r) = Updated(r)
    BY <1>1, <1>2 DEF RowIsIntended, Counted, Intended, Publishings
  <1>4. work[r].row.fields = cases[c].fields
    BY <1>1, <1>2, <1>3 DEF Updated, Bump, Row, Publishings
  <1>5. proj.fields = page
    OBVIOUS
  <1>6. page = [f \in cmd[r].pick |-> cases[c].fields[f]]
    BY <1>4
  <1> HIDE DEF proj, page
  <1>7. /\ v.case = c /\ v.row = work[r].row /\ v.pid = work[r].pid /\ v.pend = work[r].pend
        /\ v.proj = proj
        /\ w.case = c /\ w.row = work[r].row /\ w.pid = work[r].pid /\ w.pend = work[r].pend
    BY <1>2 DEF Work
  <1> HIDE DEF v, w
  <1>8. /\ Apart(r) /\ UNCHANGED cmd /\ pc'[r] = "projected"
        /\ work'[r] = IF Kind(r) = "publish" THEN v ELSE w
    BY <1>1, <1>2, GotoApart
  <1>9. /\ work'[r].case = c /\ work'[r].pid = work[r].pid /\ work'[r].pend = work[r].pend
        /\ work'[r].row = Intended(r)
        /\ Kind(r) = "publish" => work'[r].proj.fields = [f \in cmd[r].pick |-> cases[c].fields[f]]
    BY <1>3, <1>5, <1>6, <1>7, <1>8
  <1>10. (Writing(r))' /\ Kind(r) # "transition"
    BY <1>1, <1>8 DEF Writing, Publishings
  <1> QED BY <1>1, <1>8, <1>9, <1>10, RowFits

\* The UPDATE of the counter locks the row, whatever else the command has written.
LEMMA AppendOperationFits ==
  ASSUME AllInv, NEW r \in Requests, AppendOperation(r)
  PROVE  LedgerInv'
  <1> DEFINE c == work[r].case
             o == LoggedOperation(r)
             row == [CaseRow(r) EXCEPT !.nextOp = @ + 1]
             w == [work[r] EXCEPT !.row = row, !.ops = @ \cup {o}]
  <1>1. ReadyToLog(r) /\ UNCHANGED seen /\ Goto(r, "logged", w)
    BY DEF AppendOperation
  <1>2. /\ Active(r) /\ c \in CaseKeys /\ CaseRow(r) \in Row
    BY <1>1, BeforeLogging DEF AllInv
  <1>3. /\ TypeOK /\ RequestInv(r) /\ work[r] \in Work /\ AboutToPublish(r)
        /\ RowIsIntended(r) /\ RowMovesOn(r) /\ PageIsIntended(r)
        /\ Kind(r) # "create" => cases[c] \in Row
    BY <1>2, ActorParts DEF AllInv, TrailInv, PublicInv, LedgerInv
  <1> HIDE DEF o
  <1>4. /\ w.row = row /\ w.case = c /\ w.pid = work[r].pid /\ w.pend = work[r].pend
        /\ w.projects = work[r].projects /\ w.proj = work[r].proj
    BY <1>3 DEF Work
  <1> HIDE DEF w
  <1>5. /\ Apart(r) /\ UNCHANGED cmd /\ pc'[r] = "logged" /\ work'[r] = w
    BY <1>1, <1>3, GotoApart
  <1>6. (Writing(r))'
    BY <1>5 DEF Writing
  <1>7. CASE Kind(r) = "transition"
    <2>1. Writing(r) /\ CaseRow(r) = work[r].row
      BY <1>1, <1>3, <1>7
      DEF ReadyToLog, ReadsVersion, Publishings, RequestInv, Carries, CaseRow, Writing
    <2>2. /\ row.version = CaseRow(r).version /\ row.nextOp = CaseRow(r).nextOp + 1
          /\ row.state = CaseRow(r).state
      BY <1>2 DEF Row
    <2>3. PICK s \in States :
            Allowed(cases[c].state, s) /\ Ledger!Reaches(s, CaseRow(r).state)
      BY <1>3, <1>7, <2>1 DEF RowMovesOn
    <2>4. cases[c].version < CaseRow(r).version /\ cases[c].nextOp < CaseRow(r).nextOp + 1
      BY <1>2, <1>3, <1>7, <2>1 DEF RowMovesOn, Row
    <2>5. cases[c].nextOp \in Nat /\ CaseRow(r).nextOp \in Nat
      BY <1>2, <1>3, <1>7 DEF Row
    <2>6. MovesOn(cases[c], row) /\ cases[c].nextOp < row.nextOp
      BY <2>2, <2>3, <2>4, <2>5 DEF MovesOn
    <2> HIDE DEF row
    <2> QED BY <1>2, <1>4, <1>5, <1>6, <1>7, <2>6, TransitionFits
  <1>8. CASE Kind(r) # "transition"
    <2>1. CaseRow(r) = Intended(r)
      <3>1. CASE Writing(r)
        <4>1. CaseRow(r) = work[r].row /\ pc[r] \notin {"logged", "recorded"}
          BY <1>1, <1>3, <3>1 DEF RequestInv, Carries, CaseRow, ReadyToLog, AtEntry
        <4> QED BY <1>3, <1>8, <3>1, <4>1 DEF RowIsIntended, Counted
      <3>2. CASE ~Writing(r)
        BY <1>1, <1>3, <3>2
        DEF RequestInv, Carries, CaseRow, ReadyToLog, ReadsVersion, Writing, Intended
      <3> QED BY <3>1, <3>2
    <2>2. Kind(r) = "publish" /\ work[r].projects =>
            work[r].proj.fields = [f \in cmd[r].pick |-> cases[c].fields[f]]
      BY <1>3 DEF PageIsIntended, AboutToPublish, Writing
    <2> QED BY <1>2, <1>4, <1>5, <1>6, <1>8, <2>1, <2>2, RowFits
  <1> QED BY <1>7, <1>8

LEMMA WriteTrailFits ==
  ASSUME AllInv, NEW r \in Requests, WriteTrail(r)
  PROVE  LedgerInv'
  <1> DEFINE a == Events(r, AuditNames[Kind(r)])
             b == Events(r, OutboxNames[Kind(r)])
             c == work[r].case
             w == [work[r] EXCEPT !.audit = a, !.outbox = b]
  <1>1. /\ Active(r) /\ Writing(r) /\ pc[r] = "logged" /\ UNCHANGED seen
        /\ Goto(r, "recorded", w)
    BY DEF WriteTrail, Active, Writing
  <1>2. /\ TypeOK /\ work[r] \in Work
        /\ RowIsIntended(r) /\ RowMovesOn(r) /\ PageIsIntended(r)
    BY <1>1, ActorParts DEF AllInv, TrailInv, LedgerInv
  <1> HIDE DEF a, b
  <1>3. /\ w.row = work[r].row /\ w.case = c /\ w.pid = work[r].pid /\ w.pend = work[r].pend
        /\ w.projects = work[r].projects /\ w.proj = work[r].proj
    BY <1>2 DEF Work
  <1> HIDE DEF w
  <1>4. /\ Apart(r) /\ UNCHANGED cmd /\ pc'[r] = "recorded" /\ work'[r] = w
    BY <1>1, <1>2, GotoApart
  <1>5. (Writing(r))'
    BY <1>4 DEF Writing
  <1>6. CASE Kind(r) = "transition"
    <2>1. MovesOn(cases[c], work[r].row) /\ cases[c].nextOp < work[r].row.nextOp
      BY <1>1, <1>2, <1>6 DEF RowMovesOn, MovesOn
    <2> QED BY <1>1, <1>3, <1>4, <1>5, <1>6, <2>1, TransitionFits
  <1>7. CASE Kind(r) # "transition"
    <2>1. work[r].row = [Intended(r) EXCEPT !.nextOp = @ + 1]
      BY <1>1, <1>2, <1>7 DEF RowIsIntended, Counted
    <2>2. Kind(r) = "publish" /\ work[r].projects =>
            work[r].proj.fields = [f \in cmd[r].pick |-> cases[c].fields[f]]
      BY <1>1, <1>2 DEF PageIsIntended
    <2> QED BY <1>1, <1>3, <1>4, <1>5, <1>7, <2>1, <2>2, RowFits
  <1> QED BY <1>6, <1>7

LEMMA ReachesFurther ==
  ASSUME NEW s, NEW t, NEW u, Ledger!Reaches(s, t), Allowed(t, u)
  PROVE  Ledger!Reaches(s, u)
  BY DEF Ledger!Reaches, Allowed

\* A rule moves the row on, or leaves it where it is.
LEMMA RuleActionFits ==
  ASSUME AllInv, NEW r \in Requests, RulesRun(r),
         NEW row \in Row, NEW type, NEW from, NEW to, NEW events,
         RuleAction(r, row, type, from, to, events),
         work[r].row.version <= row.version, row.nextOp = work[r].row.nextOp,
         row.state = work[r].row.state \/ Allowed(work[r].row.state, row.state)
  PROVE  LedgerInv'
  <1> DEFINE c == work[r].case
             current == cases[c]
             o == [case |-> c, id |-> OperationId(r), type |-> type, from |-> from, to |-> to,
                   by |-> r]
             next == [row EXCEPT !.nextOp = @ + 1]
             a == Events(r, {"rule.execute"})
             b == Events(r, events)
             w == [work[r] EXCEPT !.row = next, !.ops = @ \cup {o}, !.audit = @ \cup a,
                                  !.outbox = @ \cup b, !.fired = @ + 1]
  <1>1. /\ Active(r) /\ Writing(r) /\ pc[r] = "recorded" /\ Kind(r) = "transition"
        /\ UNCHANGED seen /\ Goto(r, "recorded", w)
    BY DEF RuleAction, RulesRun, Active, Writing
  <1>2. /\ TypeOK /\ work[r] \in Work /\ work[r].row \in Row /\ current \in Row /\ RowMovesOn(r)
    BY <1>1, ActorParts DEF AllInv, TrailInv, LedgerInv
  <1>3. next.nextOp = row.nextOp + 1 /\ next.version = row.version /\ next.state = row.state
    BY DEF Row
  <1>4. /\ current.version < work[r].row.version /\ current.nextOp < work[r].row.nextOp
        /\ \E s \in States : Allowed(current.state, s) /\ Ledger!Reaches(s, work[r].row.state)
    BY <1>1, <1>2 DEF RowMovesOn
  <1>5. \E s \in States : Allowed(current.state, s) /\ Ledger!Reaches(s, row.state)
    BY <1>4, ReachesFurther
  <1>6. /\ current.version \in Nat /\ row.version \in Nat /\ work[r].row.version \in Nat
        /\ current.nextOp \in Nat /\ row.nextOp \in Nat
    BY <1>2 DEF Row
  <1> HIDE DEF o, next, a, b
  <1>7. w.row = next /\ w.case = c
    BY <1>2 DEF Work
  <1> HIDE DEF w
  <1>8. /\ Apart(r) /\ UNCHANGED cmd /\ pc'[r] = "recorded" /\ work'[r] = w
    BY <1>1, <1>2, GotoApart
  <1>9. /\ current.version < next.version /\ current.nextOp <= next.nextOp
        /\ current.nextOp < next.nextOp
    BY <1>3, <1>4, <1>6
  <1>10. MovesOn(current, next)
    BY <1>3, <1>5, <1>9 DEF MovesOn
  <1>11. (Writing(r))'
    BY <1>8 DEF Writing
  <1> QED BY <1>1, <1>7, <1>8, <1>9, <1>10, <1>11, TransitionFits

LEMMA RulesFit ==
  ASSUME AllInv, NEW r \in Requests, RuleSetState(r) \/ RuleUpdateValues(r) \/ RuleRecord(r)
  PROVE  LedgerInv'
  <1>1. RulesRun(r)
    BY DEF RuleSetState, RuleUpdateValues, RuleRecord
  <1>2. work[r].row \in Row
    BY <1>1, ActorParts DEF AllInv, TrailInv, RulesRun, Active, Writing
  <1>3. /\ Bump(work[r].row) \in Row
        /\ Bump(work[r].row).version = work[r].row.version + 1
        /\ Bump(work[r].row).nextOp = work[r].row.nextOp
        /\ Bump(work[r].row).state = work[r].row.state
    BY <1>2, BumpType DEF Bump, Row
  <1>4. /\ work[r].row.version <= work[r].row.version
        /\ work[r].row.version <= work[r].row.version + 1
    BY <1>2 DEF Row
  <1>5. CASE RuleSetState(r)
    <2>1. PICK s \in States :
            /\ Allowed(work[r].row.state, s)
            /\ RuleAction(r, [Bump(work[r].row) EXCEPT !.state = s], "state_change",
                          work[r].row.state, s, {"case.state.changed"})
      BY <1>5 DEF RuleSetState
    <2> DEFINE row == [Bump(work[r].row) EXCEPT !.state = s]
    <2>2. /\ row \in Row /\ row.version = work[r].row.version + 1
          /\ row.nextOp = work[r].row.nextOp /\ row.state = s
      BY <1>3 DEF Row
    <2>3. RuleAction(r, row, "state_change", work[r].row.state, s, {"case.state.changed"})
      BY <2>1
    <2> HIDE DEF row
    <2> QED BY <1>1, <1>4, <2>1, <2>2, <2>3, RuleActionFits
  <1>6. CASE RuleUpdateValues(r)
    <2>1. PICK set \in Payload :
            RuleAction(r, IF DOMAIN set = {} THEN work[r].row
                          ELSE [Bump(work[r].row) EXCEPT !.fields = Overlay(set, @)],
                       "rule_update_values", None, None, {})
      BY <1>6 DEF RuleUpdateValues
    <2> DEFINE row == IF DOMAIN set = {} THEN work[r].row
                      ELSE [Bump(work[r].row) EXCEPT !.fields = Overlay(set, @)]
    <2>2. Overlay(set, Bump(work[r].row).fields) \in [Fields -> Values \cup {None}]
      BY <1>3, OverlayType DEF Row
    <2>3. /\ row \in Row /\ row.nextOp = work[r].row.nextOp /\ row.state = work[r].row.state
          /\ row.version = work[r].row.version \/ row.version = work[r].row.version + 1
      BY <1>2, <1>3, <2>2 DEF Row
    <2>4. RuleAction(r, row, "rule_update_values", None, None, {})
      BY <2>1
    <2> HIDE DEF row
    <2> QED BY <1>1, <1>4, <2>3, <2>4, RuleActionFits
  <1>7. CASE RuleRecord(r)
    <2>1. PICK events : RuleAction(r, work[r].row, "rule_action", None, None, events)
      BY <1>7 DEF RuleRecord
    <2> QED BY <1>1, <1>2, <1>4, <2>1, RuleActionFits
  <1> QED BY <1>5, <1>6, <1>7

-----------------------------------------------------------------------------
(* The commit. *)

\* The rows another request has made are of another case, another year and another
\* submission, or it makes them anew.
LEMMA CommitFits ==
  ASSUME AllInv, NEW r \in Requests, pc[r] = "recorded", NEW told, Install(r), Finish(r, told)
  PROVE  LedgerInv'
  <1> DEFINE c == work[r].case
             row == work[r].row
  <1>1. CaseInv /\ Active(r) /\ AboutToDecide(r) /\ SubmissionIsIntended(r)
    BY DEF AllInv, TrailInv, LedgerInv, Active
  <1>2. /\ TypeOK /\ RequestInv(r) /\ Writing(r) /\ c \in CaseKeys /\ lock[c] = r
        /\ cases' = [cases EXCEPT ![c] = row]
        /\ Kind(r) = "create" =>
             /\ cmd[r].year \in Years /\ lock[cmd[r].year] = r
             /\ counter' = [counter EXCEPT ![cmd[r].year] = row.number]
        /\ Kind(r) # "create" => counter' = counter
        /\ pc'[r] = "done" /\ OthersStand(r)
    BY <1>1, CommitParts
  <1>3. Fits(r)'
    BY <1>2 DEF Fits, RowIsIntended, RowMovesOn, PageIsIntended, SubmissionIsIntended, Writing,
                Active
  <1>4. \A p \in PendingIds : pending[p] # None => pending'[p].set = pending[p].set
    <2> TAKE p \in PendingIds
    <2>1. HAVE pending[p] # None
    <2>2. CASE work[r].pid # p
      BY <1>2, <2>2 DEF Install, TypeOK
    <2>3. CASE work[r].pid = p
      <3>1. p # None
        BY NoneAssumption
      <3>2. Kind(r) \in Decisions
        BY <1>1, <1>2, <2>1, <2>3, <3>1 DEF RequestInv, OnPending
      <3>3. work[r].pend.set = pending[p].set
        BY <1>1, <2>3, <3>2 DEF SubmissionIsIntended
      <3>4. pending'[p] = work[r].pend
        BY <1>2, <2>3, <3>1 DEF Install, TypeOK
      <3> QED BY <3>3, <3>4
    <2> QED BY <2>2, <2>3
  <1>5. ASSUME NEW q \in Requests \ {r}
        PROVE  Fits(q)'
    <2>1. Fits(q) /\ RequestInv(q)
      BY <1>1 DEF AllInv, LedgerInv, Fits, CaseInv
    <2>2. pc'[q] = pc[q] /\ cmd'[q] = cmd[q] /\ work'[q] = work[q]
      BY <1>2 DEF OthersStand
    <2>3. Writing(q) => work[q].case \in CaseKeys /\ lock[work[q].case] = q
      BY <1>1, <2>1, ActorParts DEF RequestInv, HoldsLocks, Active, Writing
    <2>4. Writing(q) => cases'[work[q].case] = cases[work[q].case]
      BY <1>2, <2>3 DEF TypeOK
    <2>5. Writing(q) /\ Kind(q) = "create" => counter'[cmd[q].year] = counter[cmd[q].year]
      <3>1. HAVE Writing(q) /\ Kind(q) = "create"
      <3>2. cmd[q].year \in Years /\ lock[cmd[q].year] = q
        BY <1>1, <2>1, <3>1, ActorParts, CommandParts DEF RequestInv, HoldsLocks, Active, Writing, Kind
      <3> QED BY <1>2, <3>2 DEF TypeOK
    <2>6. Active(q) /\ Kind(q) \in Decisions =>
            pending'[work[q].pid].set = pending[work[q].pid].set
      <3>1. HAVE Active(q) /\ Kind(q) \in Decisions
      <3>2. work[q].pid \in PendingIds /\ pending[work[q].pid] # None
        BY <1>1, <2>1, <3>1, ActorParts DEF RequestInv, OnPending
      <3> QED BY <1>4, <3>2
    <2> QED BY <2>1, <2>2, <2>4, <2>5, <2>6, FitsStands
  <1> QED BY <1>3, <1>5 DEF LedgerInv, Fits

-----------------------------------------------------------------------------
(* The inductive invariant. *)

LEMMA LedgerInit ==
  ASSUME Init
  PROVE  LedgerInv
  <1>1. \A r \in Requests : pc[r] = "idle"
    BY DEF Init
  <1> QED
    BY <1>1 DEF LedgerInv, RowIsIntended, RowMovesOn, PageIsIntended, SubmissionIsIntended,
                Writing, Active

LEMMA LedgerStutters ==
  ASSUME AllInv, UNCHANGED vars
  PROVE  LedgerInv'
  <1>1. UNCHANGED <<counter, cases, pending, pc, cmd, seen, work>>
    BY DEF vars, tables, request
  <1>2. \A r \in Requests : Fits(r)'
    BY <1>1, FitsStands DEF AllInv, LedgerInv, Fits
  <1> QED BY <1>2 DEF LedgerInv, Fits

\* routes.ts, forms.ts: whatever others commit meanwhile, what a transaction has written is
\* what its command makes of the committed ledger at that moment.
THEOREM LedgerInvariance == Spec => []LedgerInv
  <1>1. Init => LedgerInv
    BY LedgerInit
  <1>2. HistoryInv /\ TrailInv /\ PublicInv /\ LedgerInv /\ [Next]_vars => LedgerInv'
    <2> SUFFICES ASSUME AllInv, [Next]_vars
                 PROVE  LedgerInv'
      BY DEF AllInv
    <2>1. CASE UNCHANGED vars
      BY <2>1, LedgerStutters
    <2>2. ASSUME NEW r \in Requests, Commit(r) \/ CommitUnacknowledged(r)
          PROVE  LedgerInv'
      BY <2>2, CommitFits DEF Commit, CommitUnacknowledged
    <2> QED
      BY <2>1, <2>2, ReceiveFits, EndFits, EntryFits, AllocateNumberFits, UpdateCaseFits,
         ProjectFits, AppendOperationFits, WriteTrailFits, RulesFit
      DEF Next, Advance, Terminated
  <1> QED BY <1>1, <1>2, HistoryInvariance, TrailInvariance, PublicInvariance, PTL DEF Spec

-----------------------------------------------------------------------------
(* The commits are the steps of the ledger. *)

\* The entry a commit leaves.
Left(r) ==
  [year |-> work[r].row.year, number |-> work[r].row.number,
   state |-> work[r].row.state, fields |-> work[r].row.fields,
   version |-> work[r].row.version, ops |-> work[r].row.nextOp - 1,
   shown |-> IF work[r].projects THEN work[r].proj ELSE projection[work[r].case]]

Commits(r, told) == pc[r] = "recorded" /\ Install(r) /\ Finish(r, told)

LEMMA CommitLeaves ==
  ASSUME AllInv, NEW r \in Requests, NEW told, Commits(r, told)
  PROVE  LET c == work[r].case IN
         /\ TypeOK /\ RequestInv(r) /\ Active(r) /\ Writing(r)
         /\ c \in CaseKeys /\ work[r].row \in Row /\ cmd[r] \in Command
         /\ Entries' = [Entries EXCEPT ![c] = Left(r)] /\ Left(r) \in LedgerEntry
         /\ Kind(r) = "create" =>
              /\ ~Exists(c) /\ work[r].row.year = cmd[r].year /\ cmd[r].year \in Years
              /\ counter' = [counter EXCEPT ![cmd[r].year] = counter[cmd[r].year] + 1]
         /\ Kind(r) # "create" => Exists(c) /\ cases[c] \in Row /\ counter' = counter
         /\ pending' = IF Kind(r) \in Decisions \cup {"stage"}
                         THEN [pending EXCEPT ![work[r].pid] = work[r].pend] ELSE pending
         /\ Kind(r) \notin Publishings => Left(r).shown = projection[c]
         /\ Kind(r) # "transition" => work[r].row = [Intended(r) EXCEPT !.nextOp = @ + 1]
  <1> DEFINE row == work[r].row
  <1>1. /\ CaseInv /\ Active(r) /\ AboutToPublish(r) /\ RowIsIntended(r)
    BY DEF AllInv, TrailInv, PublicInv, LedgerInv, Active, Commits
  <1>2. PICK c \in CaseKeys :
          /\ c = work[r].case
          /\ TypeOK /\ RequestInv(r) /\ Writing(r) /\ row \in Row /\ row # None
          /\ cmd[r] \in Command
          /\ cases' = [cases EXCEPT ![c] = row]
          /\ Kind(r) = "create" =>
               /\ ~Exists(c) /\ cmd[r].year \in Years
               /\ row.year = cmd[r].year /\ row.number = counter[row.year] + 1
               /\ counter' = [counter EXCEPT ![row.year] = row.number]
          /\ Kind(r) # "create" => Exists(c) /\ counter' = counter
    BY <1>1, CommitParts DEF Commits
  <1>3. Kind(r) # "create" => cases[c] \in Row
    BY <1>1, <1>2, ActorParts
  <1>4. projection' = IF work[r].projects THEN [projection EXCEPT ![c] = work[r].proj]
                                          ELSE projection
    BY <1>2 DEF Commits, Install
  <1>5. Entry(c)' = Left(r)
    BY <1>2, <1>4 DEF Entry, Left, TypeOK
  <1>6. \A d \in CaseKeys \ {c} : Entry(d)' = Entry(d)
    BY <1>2, <1>4 DEF Entry, TypeOK
  <1>7. Entries' = [Entries EXCEPT ![c] = Left(r)]
    BY <1>2, <1>5, <1>6 DEF Entries
  <1>8. pending' = IF Kind(r) \in Decisions \cup {"stage"}
                    THEN [pending EXCEPT ![work[r].pid] = work[r].pend] ELSE pending
    BY <1>1, <1>2 DEF Commits, Install, RequestInv, OnPending
  <1>9. Kind(r) \notin Publishings => Left(r).shown = projection[c]
    BY <1>1, <1>2 DEF AboutToPublish, Left
  <1>10. Kind(r) # "transition" => row = [Intended(r) EXCEPT !.nextOp = @ + 1]
    BY <1>1, <1>2 DEF RowIsIntended, Counted, Commits
  <1>11. Left(r) \in LedgerEntry
    <2>1. (IF work[r].projects THEN work[r].proj ELSE projection[c]) \in Projection \cup {None}
      BY <1>2, <1>1, ActorParts DEF TypeOK, Work
    <2> QED BY <1>2, <2>1 DEF Left, LedgerEntry, Row
  <1> QED BY <1>1, <1>2, <1>3, <1>7, <1>8, <1>9, <1>10, <1>11

LEMMA CommitCreates ==
  ASSUME AllInv, NEW r \in Requests, NEW told, Commits(r, told), Kind(r) = "create"
  PROVE  Ledger!Create(work[r].case)
  <1> DEFINE c == work[r].case
             row == work[r].row
             y == cmd[r].year
  <1>1. /\ TypeOK /\ c \in CaseKeys /\ row \in Row /\ Entries' = [Entries EXCEPT ![c] = Left(r)]
        /\ ~Exists(c) /\ row.year = y /\ y \in Years
        /\ counter' = [counter EXCEPT ![y] = counter[y] + 1] /\ pending' = pending
        /\ Left(r).shown = projection[c]
        /\ row = [Intended(r) EXCEPT !.nextOp = @ + 1]
    BY CommitLeaves DEF Decisions, Publishings
  <1>2. Intended(r) = NewRow(cmd[r], counter[y] + 1)
    BY DEF Intended, Publishings, ChangesFields
  <1>3. row.number = counter[y] + 1 /\ row.state = InitialState /\ row.version = 1 /\ row.nextOp = 2
    BY <1>1, <1>2 DEF NewRow
  <1>4. projection[c] = None
    BY <1>1 DEF AllInv, PublicInv, ProjectionConsistent
  <1>5. /\ Left(r).year = y /\ Left(r).number = counter[y] + 1 /\ Left(r).state = InitialState
        /\ Left(r).version = 1 /\ Left(r).ops = 1 /\ Left(r).shown = None
    BY <1>1, <1>3, <1>4 DEF Left
  <1>6. Left(r) # None
    BY CommitLeaves, NoEntryAssumption
  <1>7. Entries[c] = None /\ Entries'[c] = Left(r)
        /\ \A d \in CaseKeys \ {c} : Entries'[d] = Entries[d]
    BY <1>1 DEF Entries, Entry, Exists
  <1> QED BY <1>1, <1>5, <1>6, <1>7 DEF Ledger!Create, Ledger!Open, Ledger!Others

\* What a row is entered as.
LEMMA EntryOf ==
  ASSUME TypeOK, NEW c \in CaseKeys, Exists(c), cases[c] \in Row
  PROVE  LET e == Entries[c] IN
         /\ e \in LedgerEntry /\ Ledger!Open(c)
         /\ e.year = cases[c].year /\ e.number = cases[c].number /\ e.state = cases[c].state
         /\ e.fields = cases[c].fields /\ e.version = cases[c].version
         /\ e.ops = cases[c].nextOp - 1 /\ e.shown = projection[c]
  <1> DEFINE e == [year |-> cases[c].year, number |-> cases[c].number,
                   state |-> cases[c].state, fields |-> cases[c].fields,
                   version |-> cases[c].version, ops |-> cases[c].nextOp - 1,
                   shown |-> projection[c]]
  <1>1. Entries[c] = e
    BY DEF Entries, Entry, Exists
  <1>2. projection[c] \in Projection \cup {None}
    BY DEF TypeOK
  <1>3. e \in LedgerEntry
    BY <1>2 DEF LedgerEntry, Row
  <1>4. /\ e.year = cases[c].year /\ e.number = cases[c].number /\ e.state = cases[c].state
        /\ e.fields = cases[c].fields /\ e.version = cases[c].version
        /\ e.ops = cases[c].nextOp - 1 /\ e.shown = projection[c]
    OBVIOUS
  <1> HIDE DEF e
  <1> QED BY <1>1, <1>3, <1>4, NoEntryAssumption DEF Ledger!Open

\* How a commit can have changed an entry.
LEMMA EntryChanged ==
  ASSUME NEW old \in LedgerEntry, NEW new \in LedgerEntry,
         new.year = old.year, new.number = old.number, new.state = old.state,
         new.ops = old.ops + 1
  PROVE  /\ new.fields = old.fields /\ new.version = old.version /\ new.shown = old.shown =>
              new = [old EXCEPT !.ops = @ + 1]
         /\ new.shown = old.shown =>
              new = [old EXCEPT !.fields = new.fields, !.version = new.version, !.ops = @ + 1]
         /\ new.fields = old.fields /\ new.version = old.version + 1 =>
              new = [old EXCEPT !.shown = new.shown, !.version = @ + 1, !.ops = @ + 1]
  BY DEF LedgerEntry

LEMMA CommitChanges ==
  ASSUME AllInv, NEW r \in Requests, NEW told, Commits(r, told), Kind(r) # "create",
         LET current == cases[work[r].case] IN
         /\ work[r].row.year = current.year /\ work[r].row.number = current.number
         /\ work[r].row.state = current.state /\ work[r].row.nextOp = current.nextOp + 1
  PROVE  LET c == work[r].case
             current == cases[c]
             row == work[r].row
             old == Entries[c]
             new == Left(r)
         IN
         /\ Entries' = [Entries EXCEPT ![c] = new] /\ Ledger!Open(c) /\ c \in CaseKeys
         /\ row.fields = current.fields /\ row.version = current.version
              /\ Kind(r) \notin Publishings =>
                new = [old EXCEPT !.ops = @ + 1]
         /\ Kind(r) \notin Publishings =>
              new = [old EXCEPT !.fields = row.fields, !.version = row.version, !.ops = @ + 1]
         /\ row.fields = current.fields /\ row.version = current.version + 1 =>
              new = [old EXCEPT !.shown = new.shown, !.version = @ + 1, !.ops = @ + 1]
  <1> DEFINE c == work[r].case
             current == cases[c]
             row == work[r].row
             old == Entries[c]
             new == Left(r)
  <1>1. /\ TypeOK /\ c \in CaseKeys /\ Exists(c) /\ current \in Row /\ row \in Row
        /\ Entries' = [Entries EXCEPT ![c] = new] /\ new \in LedgerEntry
        /\ Kind(r) \notin Publishings => new.shown = projection[c]
    BY CommitLeaves
  <1>2. /\ old \in LedgerEntry /\ Ledger!Open(c)
        /\ old.year = current.year /\ old.number = current.number /\ old.state = current.state
        /\ old.fields = current.fields /\ old.version = current.version
        /\ old.ops = current.nextOp - 1 /\ old.shown = projection[c]
    BY <1>1, EntryOf
  <1>3. /\ new.year = row.year /\ new.number = row.number /\ new.state = row.state
        /\ new.fields = row.fields /\ new.version = row.version /\ new.ops = row.nextOp - 1
    BY DEF Left
  <1>4. /\ new.ops = old.ops + 1
        /\ row.year = current.year /\ row.number = current.number /\ row.state = current.state
    BY <1>1, <1>2, <1>3 DEF Row
  <1> HIDE DEF c, current, row, old, new
  <1>5. /\ row.fields = current.fields /\ row.version = current.version
             /\ Kind(r) \notin Publishings => new = [old EXCEPT !.ops = @ + 1]
        /\ Kind(r) \notin Publishings =>
             new = [old EXCEPT !.fields = new.fields, !.version = new.version, !.ops = @ + 1]
        /\ row.fields = current.fields /\ row.version = current.version + 1 =>
             new = [old EXCEPT !.shown = new.shown, !.version = @ + 1, !.ops = @ + 1]
    <2>1. /\ old \in LedgerEntry /\ new \in LedgerEntry
          /\ new.year = old.year /\ new.number = old.number /\ new.state = old.state
          /\ new.ops = old.ops + 1
          /\ Kind(r) \notin Publishings => new.shown = old.shown
          /\ row.fields = current.fields => new.fields = old.fields
          /\ row.version = current.version => new.version = old.version
          /\ row.version = current.version + 1 => new.version = old.version + 1
      BY <1>1, <1>2, <1>3, <1>4
    <2>2. /\ new.fields = old.fields /\ new.version = old.version /\ new.shown = old.shown =>
               new = [old EXCEPT !.ops = @ + 1]
          /\ new.shown = old.shown =>
               new = [old EXCEPT !.fields = new.fields, !.version = new.version, !.ops = @ + 1]
          /\ new.fields = old.fields /\ new.version = old.version + 1 =>
               new = [old EXCEPT !.shown = new.shown, !.version = @ + 1, !.ops = @ + 1]
      BY <2>1, EntryChanged
    <2> QED BY <2>1, <2>2
  <1> QED BY <1>1, <1>2, <1>3, <1>5 DEF c, current, row, old, new

LEMMA CommitAmends ==
  ASSUME AllInv, NEW r \in Requests, NEW told, Commits(r, told), Kind(r) \in {"update", "approve"}
  PROVE  Ledger!Amendment(work[r].case, Submitted(r))
  <1> DEFINE c == work[r].case
             row == work[r].row
             set == Submitted(r)
             fields == Ledger!Amended(set, cases[c].fields)
             version == IF DOMAIN set = {} THEN cases[c].version ELSE cases[c].version + 1
  <1>1. /\ TypeOK /\ c \in CaseKeys /\ Exists(c) /\ cases[c] \in Row /\ row \in Row
        /\ Entries' = [Entries EXCEPT ![c] = Left(r)] /\ Left(r).shown = projection[c]
        /\ Left(r) \in LedgerEntry
        /\ row = [Intended(r) EXCEPT !.nextOp = @ + 1]
    BY CommitLeaves DEF Decisions, Publishings
  <1>2. /\ row.year = cases[c].year /\ row.number = cases[c].number /\ row.state = cases[c].state
        /\ row.fields = fields /\ row.version = version
        /\ row.nextOp = cases[c].nextOp + 1
    <2>1. CASE ChangesFields(r)
      <3>1. Intended(r) = [Bump(cases[c]) EXCEPT !.fields = Overlay(set, @)]
        BY <2>1 DEF Intended, Publishings, Updated
      <3>2. DOMAIN set # {}
        BY <2>1 DEF ChangesFields
      <3> HIDE DEF set
      <3>3. Overlay(set, cases[c].fields) = fields
        BY DEF Overlay, Ledger!Amended
      <3>4. Bump(cases[c]) = [cases[c] EXCEPT !.version = @ + 1]
        BY DEF Bump
      <3>5. row = [cases[c] EXCEPT !.version = @ + 1, !.fields = fields, !.nextOp = @ + 1]
        BY <1>1, <3>1, <3>3, <3>4 DEF Row
      <3> QED BY <1>1, <3>2, <3>5 DEF Row
    <2>2. CASE ~ChangesFields(r)
      <3>1. Intended(r) = cases[c] /\ DOMAIN set = {}
        BY <2>2 DEF Intended, Publishings, ChangesFields
      <3> HIDE DEF set
      <3>2. cases[c].fields = fields
        BY <1>1, <3>1 DEF Ledger!Amended, Row
      <3> HIDE DEF fields
      <3> QED BY <1>1, <3>1, <3>2 DEF Row
    <2> QED BY <2>1, <2>2
  <1> HIDE DEF set, fields, version
  <1>3. Left(r) = [Entries[c] EXCEPT !.fields = fields, !.version = version, !.ops = @ + 1]
    BY <1>1, <1>2, CommitChanges DEF Publishings
  <1>4. Ledger!Amendment(c, set)
    <2>1. Entries[c].fields = cases[c].fields /\ Entries[c].version = cases[c].version
      BY <1>1, EntryOf
    <2> QED BY <1>1, <1>3, <2>1 DEF Ledger!Amendment, Entries, fields, version
  <1> QED BY <1>4 DEF set

\* An operation that changes no field: a note, a submission staged or rejected.
LEMMA CommitNotes ==
  ASSUME AllInv, NEW r \in Requests, NEW told, Commits(r, told),
         Kind(r) \in {"append", "stage", "reject"}
  PROVE  Entries' = [Entries EXCEPT ![work[r].case].ops = @ + 1]
  <1> DEFINE c == work[r].case
             row == work[r].row
  <1>1. /\ TypeOK /\ c \in CaseKeys /\ cases[c] \in Row
        /\ row = [Intended(r) EXCEPT !.nextOp = @ + 1]
    BY CommitLeaves
  <1>2. Intended(r) = cases[c]
    BY DEF Intended, Publishings, ChangesFields
  <1>3. /\ row.year = cases[c].year /\ row.number = cases[c].number /\ row.state = cases[c].state
        /\ row.fields = cases[c].fields /\ row.version = cases[c].version
        /\ row.nextOp = cases[c].nextOp + 1
    BY <1>1, <1>2 DEF Row
  <1>4. /\ Entries' = [Entries EXCEPT ![c] = Left(r)]
        /\ Left(r) = [Entries[c] EXCEPT !.ops = @ + 1]
    BY <1>3, CommitChanges DEF Publishings
  <1> QED BY <1>1, <1>4 DEF Entries

LEMMA CommitSubmits ==
  ASSUME AllInv, NEW r \in Requests, NEW told, Commits(r, told),
         Kind(r) \in Decisions \cup {"stage"}
  PROVE  Ledger!Stage(work[r].pid) \/ Ledger!Approve(work[r].pid) \/ Ledger!Reject(work[r].pid)
  <1> DEFINE p == work[r].pid
             pend == work[r].pend
  <1>1. /\ TypeOK /\ RequestInv(r) /\ Active(r) /\ pc[r] = "recorded" /\ work[r] \in Work
        /\ AboutToDecide(r) /\ SubmissionIsIntended(r)
    BY CommitLeaves DEF AllInv, TrailInv, LedgerInv, Commits, TypeOK
  <1>2. /\ p \in PendingIds /\ pend \in PendingRow /\ pend.case = work[r].case /\ pend # None
        /\ pending' = [pending EXCEPT ![p] = pend] /\ counter' = counter
        /\ Ledger!Open(work[r].case)
    <2>1. /\ p # None /\ pend # None /\ pend.case = work[r].case
      BY <1>1 DEF RequestInv, OnPending, Decisions
    <2>2. pending' = [pending EXCEPT ![p] = pend] /\ counter' = counter
      BY CommitLeaves DEF Decisions
    <2>3. Exists(work[r].case) /\ cases[work[r].case] \in Row /\ work[r].case \in CaseKeys
      BY CommitLeaves DEF Decisions
    <2> QED BY <1>1, <2>1, <2>2, <2>3, EntryOf DEF Work
  <1>3. CASE Kind(r) = "stage"
    <2>1. pending[p] = None /\ pend.status = "pending"
      BY <1>1, <1>3 DEF RequestInv, OnPending, AboutToDecide
    <2>2. pending'[p] = pend
      BY <1>1, <1>2 DEF TypeOK
    <2>3. Entries' = [Entries EXCEPT ![pend.case].ops = @ + 1]
      BY <1>2, <1>3, CommitNotes
    <2> QED BY <1>2, <2>1, <2>2, <2>3 DEF Ledger!Stage
  <1>4. CASE Kind(r) \in Decisions
    <2>1. /\ pending[p] # None /\ pending[p].status = "pending" /\ pend.set = pending[p].set
          /\ pending[p].case = work[r].case /\ pend.status = Verdict(r)
      BY <1>1, <1>4 DEF RequestInv, OnPending, AboutToDecide, SubmissionIsIntended, StillPending
    <2>2. pending[p] \in PendingRow
      BY <1>1, <1>2, <2>1 DEF TypeOK
    <2>3. pend = [pending[p] EXCEPT !.status = Verdict(r)]
      BY <1>2, <2>1, <2>2 DEF PendingRow
    <2>4. pending' = [pending EXCEPT ![p].status = Verdict(r)]
      BY <1>1, <1>2, <2>3 DEF TypeOK
    <2>5. CASE Kind(r) = "approve"
      <3>1. Ledger!Amendment(pending[p].case, pending[p].set)
        BY <2>1, <2>5, CommitAmends DEF Submitted
      <3> QED BY <1>2, <2>1, <2>4, <2>5, <3>1 DEF Ledger!Approve, Verdict
    <2>6. CASE Kind(r) = "reject"
      <3>1. Entries' = [Entries EXCEPT ![pending[p].case].ops = @ + 1]
        BY <2>1, <2>6, CommitNotes
      <3> QED BY <1>2, <2>1, <2>4, <2>6, <3>1 DEF Ledger!Reject, Verdict
    <2> QED BY <1>4, <2>5, <2>6 DEF Decisions
  <1> QED BY <1>3, <1>4

LEMMA CommitMoves ==
  ASSUME AllInv, NEW r \in Requests, NEW told, Commits(r, told), Kind(r) = "transition"
  PROVE  Ledger!Move(work[r].case)
  <1> DEFINE c == work[r].case
             row == work[r].row
  <1>1. /\ TypeOK /\ RequestInv(r) /\ Writing(r) /\ RowMovesOn(r) /\ pc[r] = "recorded"
        /\ c \in CaseKeys /\ Exists(c) /\ cases[c] \in Row /\ row \in Row
        /\ Entries' = [Entries EXCEPT ![c] = Left(r)] /\ Left(r).shown = projection[c]
        /\ pending' = pending /\ counter' = counter
    BY CommitLeaves DEF Commits, AllInv, LedgerInv, Decisions, Publishings
  <1>2. /\ Entries'[c] = Left(r)
        /\ \A d \in CaseKeys \ {c} : Entries'[d] = Entries[d]
    BY <1>1 DEF Entries
  <1>3. /\ Ledger!Open(c) /\ Entries[c].year = cases[c].year /\ Entries[c].number = cases[c].number
        /\ Entries[c].state = cases[c].state /\ Entries[c].version = cases[c].version
        /\ Entries[c].ops = cases[c].nextOp - 1 /\ Entries[c].shown = projection[c]
    BY <1>1, EntryOf
  <1>4. /\ Left(r).year = row.year /\ Left(r).number = row.number /\ Left(r).state = row.state
        /\ Left(r).version = row.version /\ Left(r).ops = row.nextOp - 1
    BY DEF Left
  <1>5. /\ cases[c].version < row.version /\ cases[c].nextOp < row.nextOp
        /\ row.year = cases[c].year /\ row.number = cases[c].number
        /\ \E s \in States : Allowed(cases[c].state, s) /\ Ledger!Reaches(s, row.state)
    BY <1>1 DEF RowMovesOn, RequestInv, OnCase
  <1>6. Left(r).version > Entries[c].version /\ Left(r).ops > Entries[c].ops
    BY <1>1, <1>3, <1>4, <1>5 DEF Row
  <1>7. \E s \in States : <<Entries[c].state, s>> \in Transitions /\ Ledger!Reaches(s, Left(r).state)
    BY <1>3, <1>4, <1>5 DEF Allowed
  <1>8. /\ Left(r).shown = Entries[c].shown
        /\ <<Left(r).year, Left(r).number>> = <<Entries[c].year, Entries[c].number>>
    BY <1>1, <1>3, <1>4, <1>5
  <1> HIDE DEF c
  <1>9. /\ Entries'[c].version > Entries[c].version /\ Entries'[c].ops > Entries[c].ops
        /\ \E s \in States :
             <<Entries[c].state, s>> \in Transitions /\ Ledger!Reaches(s, Entries'[c].state)
        /\ Entries'[c].shown = Entries[c].shown
        /\ <<Entries'[c].year, Entries'[c].number>> = <<Entries[c].year, Entries[c].number>>
    BY <1>2, <1>6, <1>7, <1>8
  <1>10. Ledger!Open(c) /\ Ledger!Others(c) /\ counter' = counter /\ pending' = pending
    BY <1>1, <1>2, <1>3 DEF Ledger!Others
  <1>11. Ledger!Move(c)
    BY <1>9, <1>10 DEF Ledger!Move
  <1> QED BY <1>11 DEF c

\* The compare-and-swap makes the state read before the transaction the present one.
LEMMA CommitPublishes ==
  ASSUME AllInv, NEW r \in Requests, NEW told, Commits(r, told), Kind(r) \in Publishings
  PROVE  Ledger!Show(work[r].case) \/ Ledger!Hide(work[r].case)
  <1> DEFINE c == work[r].case
             row == work[r].row
  <1>1. /\ TypeOK /\ RequestInv(r) /\ Active(r) /\ Writing(r) /\ pc[r] = "recorded"
        /\ c \in CaseKeys /\ Exists(c) /\ cases[c] \in Row /\ row \in Row
        /\ cmd[r] \in Command /\ work[r] \in Work
        /\ pending' = pending /\ counter' = counter
        /\ row = [Intended(r) EXCEPT !.nextOp = @ + 1]
        /\ AboutToPublish(r) /\ PageIsIntended(r)
    BY CommitLeaves DEF Commits, AllInv, PublicInv, LedgerInv, Decisions, Publishings, TypeOK
  <1>2. Intended(r) = [Bump(cases[c]) EXCEPT !.published = (Kind(r) = "publish")]
    BY DEF Intended, Updated, Publishings
  <1>3. /\ row.year = cases[c].year /\ row.number = cases[c].number /\ row.state = cases[c].state
        /\ row.fields = cases[c].fields /\ row.version = cases[c].version + 1
        /\ row.nextOp = cases[c].nextOp + 1
    BY <1>1, <1>2 DEF Row, Bump
  <1>4. /\ Entries' = [Entries EXCEPT ![c] = Left(r)] /\ Ledger!Open(c)
        /\ Left(r) = [Entries[c] EXCEPT !.shown = Left(r).shown, !.version = @ + 1, !.ops = @ + 1]
    BY <1>3, CommitChanges DEF Publishings
  <1>5. Left(r).shown = work[r].proj
    BY <1>1 DEF Left, AboutToPublish
  <1>6. Entries' = [Entries EXCEPT ![c].shown = work[r].proj, ![c].version = @ + 1, ![c].ops = @ + 1]
    BY <1>1, <1>4, <1>5 DEF Entries
  <1>7. Entries[c].state = cases[c].state /\ Entries[c].fields = cases[c].fields
    BY <1>1, EntryOf
  <1>8. CASE Kind(r) = "publish"
    <2>1. /\ work[r].proj \in Projection /\ work[r].proj.state = cases[c].state
          /\ work[r].proj.fields = [f \in cmd[r].pick |-> cases[c].fields[f]]
          /\ cmd[r].pick \subseteq Fields
      BY <1>1, <1>8, CommandParts DEF AboutToPublish, PageIsIntended, Work, Kind, Publishings
    <2>2. work[r].proj = [state |-> work[r].proj.state, fields |-> work[r].proj.fields]
      BY <2>1 DEF Projection
    <2>3. [f \in cmd[r].pick |-> cases[c].fields[f]] = [f \in cmd[r].pick |-> Entries[c].fields[f]]
      BY <1>7
    <2>4. work[r].proj = [state |-> Entries[c].state,
                          fields |-> [f \in cmd[r].pick |-> Entries[c].fields[f]]]
      BY <1>7, <2>1, <2>2, <2>3
    <2> HIDE DEF c
    <2>5. Entries' = [Entries EXCEPT
                       ![c].shown = [state |-> Entries[c].state,
                                     fields |-> [f \in cmd[r].pick |-> Entries[c].fields[f]]],
                       ![c].version = @ + 1, ![c].ops = @ + 1]
      BY <1>6, <2>4
    <2>6. Ledger!Show(c)
      BY <1>1, <1>4, <2>1, <2>5 DEF Ledger!Show
    <2> QED BY <2>6 DEF c
  <1>9. CASE Kind(r) = "unpublish"
    <2>1. work[r].proj = None
      BY <1>1, <1>9 DEF AboutToPublish
    <2> QED BY <1>1, <1>4, <1>6, <2>1 DEF Ledger!Hide
  <1> QED BY <1>8, <1>9 DEF Publishings

\* A commit is one step of the ledger, the one its command promises.
LEMMA CommitSteps ==
  ASSUME AllInv, NEW r \in Requests, NEW told, Commits(r, told)
  PROVE  Ledger!Next
  <1>1. /\ TypeOK /\ work[r].case \in CaseKeys /\ cmd[r] \in Command /\ work[r] \in Work
        /\ RequestInv(r) /\ Active(r) /\ pc[r] # "ready"
    BY CommitLeaves DEF Commits, TypeOK
  <1>2. Kind(r) \in {"create", "append", "transition", "update", "stage", "approve", "reject",
                     "publish", "unpublish"}
    BY <1>1, CommandParts DEF Kind
  <1>3. CASE Kind(r) = "append"
    <2>1. /\ Entries' = [Entries EXCEPT ![work[r].case].ops = @ + 1]
          /\ Ledger!Open(work[r].case) /\ counter' = counter /\ pending' = pending
      BY <1>3, CommitNotes, CommitLeaves, EntryOf DEF Decisions
    <2> QED BY <1>1, <2>1 DEF Ledger!Note, Ledger!Next
  <1>4. CASE Kind(r) = "update"
    <2>1. /\ Ledger!Amendment(work[r].case, cmd[r].set) /\ cmd[r].set \in Payload
          /\ Ledger!Open(work[r].case) /\ counter' = counter /\ pending' = pending
      BY <1>1, <1>4, CommitAmends, CommitLeaves, EntryOf, CommandParts DEF Submitted, Decisions, Kind
    <2>2. \E F \in SUBSET Fields : cmd[r].set \in [F -> Values]
      BY <2>1 DEF Payload
    <2> QED BY <1>1, <2>1, <2>2 DEF Ledger!Amend, Ledger!Next
  <1>5. CASE Kind(r) \in Decisions \cup {"stage"}
    <2>1. work[r].pid \in PendingIds
      BY <1>1, <1>5 DEF RequestInv, OnPending, Decisions, Work
    <2> QED BY <1>5, <2>1, CommitSubmits DEF Ledger!Next
  <1> QED
    BY <1>1, <1>2, <1>3, <1>4, <1>5, CommitCreates, CommitMoves, CommitPublishes
    DEF Ledger!Next, Decisions, Publishings

LEMMA TablesStand ==
  ASSUME UNCHANGED tables
  PROVE  UNCHANGED Ledger!vars
  <1>1. UNCHANGED <<counter, cases, pending, projection>>
    BY DEF tables
  <1>2. Entries' = Entries
    BY <1>1 DEF Entries, Entry
  <1> QED BY <1>1, <1>2 DEF Ledger!vars

\* A fresh registry is an empty ledger.
LEMMA EmptyLedger ==
  ASSUME Init
  PROVE  Ledger!Init
  BY DEF Init, InitTables, Entries, Entry, Ledger!Init

\* routes.ts, forms.ts, domain/*.ts: for every number of requests, cases, submissions and
\* states, whatever interleaves and fails, each command that takes effect does so at one
\* moment, its commit, on the ledger as it is at that moment.
THEOREM LedgerImplemented == Spec => ImplementsLedger
  <1>1. Init => Ledger!Init
    BY EmptyLedger
  <1>2. HistoryInv /\ TrailInv /\ PublicInv /\ LedgerInv /\ [Next]_vars
          => [Ledger!Next]_(Ledger!vars)
    <2> SUFFICES ASSUME AllInv, [Next]_vars
                 PROVE  Ledger!Next \/ UNCHANGED Ledger!vars
      BY DEF AllInv
    <2>1. TypeOK
      BY DEF AllInv, TrailInv, CaseInv
    <2>2. CASE UNCHANGED vars
      BY <2>2, TablesStand DEF vars
    <2>3. ASSUME NEW r \in Requests, Commit(r) \/ CommitUnacknowledged(r)
          PROVE  Ledger!Next
      BY <2>3, CommitSteps DEF Commit, CommitUnacknowledged, Commits
    <2> QED
      BY <2>1, <2>2, <2>3, StatementsStand, TablesStand DEF Next, Advance, Terminated
  <1> QED
    BY <1>1, <1>2, HistoryInvariance, TrailInvariance, PublicInvariance, LedgerInvariance, PTL
    DEF Spec, ImplementsLedger, Ledger!Spec
=============================================================================
