----------------------------- MODULE CaseSafety -----------------------------
(***************************************************************************)
(* The properties that make the commands on a case correct, whatever the   *)
(* order in which the statements of concurrent requests run.               *)
(***************************************************************************)
EXTENDS CaseCommands

Exists(c) == cases[c] # None
History(c) == {o \in operations : o.case = c}

\* The types of the state variables.
TypeOK ==
  /\ counter \in [Years -> Nat]
  /\ cases \in [CaseKeys -> Row \cup {None}]
  /\ operations \subseteq Operation
  /\ audit \subseteq Event
  /\ outbox \subseteq Event
  /\ pending \in [PendingIds -> PendingRow \cup {None}]
  /\ projection \in [CaseKeys -> Projection \cup {None}]
  /\ shownOps \subseteq CaseKeys \X Nat
  /\ lock \in [Lockable -> Requests \cup {None}]
  /\ pc \in [Requests -> {"idle", "ready", "open", "checked", "held", "projected",
                          "logged", "recorded", "done"}]
  /\ cmd \in [Requests -> Command \cup {None}]
  /\ seen \in [Requests -> Row \cup {None}]
  /\ work \in [Requests -> Work]
  /\ answer \in [Requests -> {"ok", "refused", "illegal", "conflict", "error", None}]

\* operations.ts, appendOperation: "MAX+1 races under concurrent writers; this
\* counter does not".  The history of a case is numbered 1, 2, 3, ... without a
\* gap or a repetition, and the case row's counter is the next number.
OperationIdsGapless ==
  /\ \A c \in CaseKeys : Exists(c) =>
       {o.id : o \in History(c)} = 1 .. (cases[c].nextOp - 1)
  /\ \A o1, o2 \in operations : o1.case = o2.case /\ o1.id = o2.id => o1 = o2

\* state-machine.ts: "state and history never diverge".  The state-bearing
\* operations of a case form a chain of configured transitions that starts in the
\* initial state and ends in the state the case is in.
Bearing(S) == {o \in S : o.to # None}
Before(o, S) == {q \in S : q.id < o.id}
IsLatest(o, S) == o \in S /\ \A q \in S : q.id <= o.id

\* The last of the operations S leads to `state`, each of the others to the next one.
LeadsTo(S, state) == \E o \in S : IsLatest(o, S) /\ o.to = state
Chained(S) ==
  \A o \in S : IF o.from = None THEN o.id = 1 /\ o.to = InitialState
                                ELSE Allowed(o.from, o.to) /\ LeadsTo(Before(o, S), o.from)

HistoryExplainsState ==
  \A c \in CaseKeys : Exists(c) =>
    LeadsTo(Bearing(History(c)), cases[c].state) /\ Chained(Bearing(History(c)))

\* diary-number.ts: numbers are collision-free and gapless within a year, and a
\* creation that was rolled back consumes none.
DiaryNumbersGapless ==
  /\ \A y \in Years :
       {cases[c].number : c \in {d \in CaseKeys : Exists(d) /\ cases[d].year = y}}
         = 1 .. counter[y]
  /\ \A c, d \in CaseKeys :
       Exists(c) /\ Exists(d) /\ c # d => <<cases[c].year, cases[c].number>>
                                            # <<cases[d].year, cases[d].number>>

\* HARDENING_PORT.md 22-25: history, audit and outbox records of a request
\* commit or roll back together, and the client that was told "ok" has them all,
\* the one that was told of a conflict or an illegal transition has left none.
Traces(r) ==
  [logged  |-> {o.type : o \in {q \in operations : q.by = r}},
   audited |-> {e.name : e \in {q \in audit : q.by = r}},
   emitted |-> {e.name : e \in {q \in outbox : q.by = r}}]
NoTraces == [logged |-> {}, audited |-> {}, emitted |-> {}]
FullTraces(r) ==
  /\ LoggedType(r) \in Traces(r).logged
  /\ AuditNames[Kind(r)] \subseteq Traces(r).audited
  /\ OutboxNames[Kind(r)] \subseteq Traces(r).emitted

Truthful(r) ==
  CASE answer[r] = "ok"    -> FullTraces(r)
    [] answer[r] = "error" -> FullTraces(r) \/ Traces(r) = NoTraces
    [] OTHER               -> Traces(r) = NoTraces

AnswerMatchesTraces == \A r \in Requests : Truthful(r)

\* forms.ts, decidePending: a submission is decided at most once; what was
\* decided is the decision of exactly one request, an approval has changed the
\* case in the same commit, and a rejected or waiting submission has not.
Decided(r, p) ==
  /\ cmd[r] # None /\ Kind(r) \in Decisions /\ cmd[r].pid = p
  /\ \E e \in audit : e.by = r

DecidedOnce ==
  \A p \in PendingIds : pending[p] # None =>
    LET D == {r \in Requests : Decided(r, p)} IN
    IF pending[p].status = "pending" THEN D = {}
    ELSE \E r \in D : /\ D = {r}
                      /\ Kind(r) = (IF pending[p].status = "approved" THEN "approve" ELSE "reject")

\* routes.ts, postPublish: a published projection shows a state the case was
\* really in when it was published, with operations of that case's history from
\* before it; an unpublished case shows nothing.  A publication is known by its
\* request, as a worker's note may be of any type.
Publications(c) == {o \in History(c) : Kind(o.by) = "publish"}
ShownIds(c)     == {s[2] : s \in {q \in shownOps : q[1] = c}}

ShownBy(o, c) ==
  /\ IsLatest(o, Publications(c))
  /\ \A i \in ShownIds(c) : i < o.id
  /\ LeadsTo(Before(o, Bearing(History(c))), projection[c].state)

ProjectionConsistent ==
  \A c \in CaseKeys :
    IF Exists(c) /\ cases[c].published
      THEN projection[c] # None /\ \E o \in operations : ShownBy(o, c)
      ELSE projection[c] = None /\ ShownIds(c) = {}

\* Every command that takes effect does so at one moment, on the ledger as it is
\* at that moment: the requests are serializable in the order of their commits.
Entry(c) ==
  IF cases[c] = None THEN None
  ELSE [year |-> cases[c].year, number |-> cases[c].number,
        state |-> cases[c].state, fields |-> cases[c].fields,
        version |-> cases[c].version, ops |-> cases[c].nextOp - 1,
        shown |-> projection[c]]
Entries == [c \in CaseKeys |-> Entry(c)]

LedgerEntry ==
  [year: Years, number: Nat, state: States, fields: [Fields -> Values \cup {None}],
   version: Nat, ops: Int, shown: Projection \cup {None}]
ASSUME NoEntryAssumption == None \notin LedgerEntry

Ledger == INSTANCE CaseLedger WITH
  issued <- counter,
  ledger <- Entries,
  staged <- pending
ImplementsLedger == Ledger!Spec

\* No request waits for ever: every accepted request is answered, however many
\* others contend for the rows it needs.
EveryRequestAnswered ==
  \A r \in Requests : pc[r] = "ready" ~> pc[r] = "done"

-----------------------------------------------------------------------------
(***************************************************************************)
(* The inductive invariant behind the theorems of CaseProofs: what is true *)
(* of a request at each point of its transaction, and of the committed     *)
(* tables.                                                                 *)
(***************************************************************************)
Active(r)  == pc[r] \notin {"idle", "done"}
Writing(r) == pc[r] \in {"held", "projected", "logged", "recorded"}

\* What a request carries with it at each point.
Carries(r) ==
  /\ cmd[r] = None => pc[r] = "idle"
  /\ ~Active(r) => work[r] = NoWork
  /\ ~Writing(r) => work[r].row = None /\ work[r].ops = {}
  /\ Writing(r) => work[r].row # None
  /\ pc[r] = "checked" => Kind(r) \in {"transition", "update", "approve"} /\ seen[r] # None
  /\ pc[r] = "open" => Kind(r) \in Decisions \cup {"stage"}
  /\ pc[r] = "projected" => Kind(r) \in Publishings
  /\ Active(r) /\ Kind(r) \in Publishings \cup {"transition"} => seen[r] # None

\* The submission it stages or decides: until it commits, a new one is known to
\* nobody else, and a waiting one is still waiting.
OnPending(r) ==
  /\ Active(r) /\ Kind(r) \in Decisions =>
       /\ work[r].pid # None /\ work[r].pend # None /\ pending[work[r].pid] # None
       /\ work[r].pend.case = work[r].case
       /\ pending[work[r].pid].case = work[r].case
       /\ pc[r] # "ready" => lock[work[r].pid] = r
  /\ Active(r) /\ Kind(r) = "stage" /\ pc[r] # "ready" =>
       /\ work[r].pid # None /\ work[r].pend # None /\ pending[work[r].pid] = None
       /\ work[r].pend.case = work[r].case
       /\ lock[work[r].pid] = r
  /\ work[r].pid # None => Kind(r) \in Decisions \/ (Kind(r) = "stage" /\ pc[r] # "ready")

\* The case it works on: an existing one, or one that only it knows yet.
OnCase(r) ==
  /\ Active(r) /\ Kind(r) # "create" => work[r].case # None /\ Exists(work[r].case)
  /\ Writing(r) /\ Kind(r) = "create" =>
       /\ work[r].case # None /\ ~Exists(work[r].case)
       /\ work[r].row.year = cmd[r].year
       /\ work[r].row.number = counter[cmd[r].year] + 1
  /\ Active(r) /\ Kind(r) = "create" /\ ~Writing(r) => pc[r] = "ready"
  /\ Writing(r) /\ Kind(r) # "create" =>
       /\ work[r].row.year = cases[work[r].case].year
       /\ work[r].row.number = cases[work[r].case].number

\* It holds the lock of every row it has written, and of no other case.
HoldsLocks(r) ==
  /\ Writing(r) => lock[work[r].case] = r
  /\ Writing(r) /\ Kind(r) = "create" => lock[cmd[r].year] = r
  /\ \A c \in CaseKeys : lock[c] = r => Writing(r) /\ work[r].case = c

\* Its operations continue the numbering of the committed ones.
NextId(c) == IF Exists(c) THEN cases[c].nextOp ELSE 1
Numbers(ops, first, next) ==
  /\ first <= next
  /\ \A o \in ops : first <= o.id /\ o.id < next
  /\ \A i \in first .. (next - 1) : \E o \in ops : o.id = i
  /\ \A o1, o2 \in ops : o1.id = o2.id => o1 = o2

ContinuesHistory(r) ==
  Writing(r) =>
    /\ \A o \in work[r].ops : o.case = work[r].case
    /\ Numbers(work[r].ops, NextId(work[r].case), work[r].row.nextOp)

HistoryNumbered == \A c \in CaseKeys : Numbers(History(c), 1, NextId(c))

CountersMatch ==
  /\ \A c \in CaseKeys : Exists(c) =>
       1 <= cases[c].number /\ cases[c].number <= counter[cases[c].year]
  /\ \A y \in Years : \A n \in 1 .. counter[y] :
       \E c \in CaseKeys : Exists(c) /\ cases[c].year = y /\ cases[c].number = n
  /\ \A c, d \in CaseKeys :
       Exists(c) /\ Exists(d) /\ cases[c].year = cases[d].year
         /\ cases[c].number = cases[d].number => c = d

SubmissionsHaveCases == \A p \in PendingIds : pending[p] # None => Exists(pending[p].case)

RequestInv(r) == Carries(r) /\ OnPending(r) /\ OnCase(r) /\ HoldsLocks(r) /\ ContinuesHistory(r)

CaseInv ==
  /\ TypeOK
  /\ \A r \in Requests : RequestInv(r)
  /\ HistoryNumbered
  /\ CountersMatch
  /\ SubmissionsHaveCases

-----------------------------------------------------------------------------
(***************************************************************************)
(* The inductive invariant of CaseProofs: the state in a row that is       *)
(* not committed yet, and the operations that are to explain it.           *)
(***************************************************************************)
Known(r) == Bearing(History(work[r].case) \cup work[r].ops)

\* Its operations are logged: with the committed ones they explain its row.
ExplainsItsRow(r) ==
  pc[r] \in {"logged", "recorded"} =>
    LeadsTo(Known(r), work[r].row.state) /\ Chained(Known(r))

\* The row is written and its operation is not: the two will agree.
AboutToExplain(r) ==
  pc[r] \in {"held", "projected"} =>
    LET c == work[r].case
        state == work[r].row.state IN
    /\ work[r].ops = {}
    /\ CASE Kind(r) = "create"     -> state = InitialState
         [] Kind(r) = "transition" -> /\ state = cmd[r].to
                                      /\ seen[r].state = cases[c].state
                                      /\ Allowed(cases[c].state, state)
         [] OTHER                  -> state = cases[c].state

HistoryInv ==
  /\ CaseInv
  /\ HistoryExplainsState
  /\ \A r \in Requests : ExplainsItsRow(r) /\ AboutToExplain(r)

-----------------------------------------------------------------------------
(***************************************************************************)
(* The inductive invariant of LedgerProofs: the records a transaction holds*)
(* back until its commit, and the decision it is about to make.            *)
(***************************************************************************)
Untraced(r) == \A x \in operations \cup audit \cup outbox : x.by # r

HoldsBack(r) ==
  /\ \A x \in work[r].ops \cup work[r].audit \cup work[r].outbox : x.by = r
  /\ pc[r] # "done" => Untraced(r) /\ answer[r] = None
  /\ pc[r] \in {"logged", "recorded"} => \E o \in work[r].ops : o.type = LoggedType(r)
  /\ pc[r] = "recorded" =>
       /\ AuditNames[Kind(r)] \subseteq {e.name : e \in work[r].audit}
       /\ OutboxNames[Kind(r)] \subseteq {e.name : e \in work[r].outbox}

\* Between its UPDATE of the submission and its commit nobody else decides it.
AboutToDecide(r) ==
  /\ Active(r) /\ Kind(r) \in Decisions =>
       /\ work[r].pid = cmd[r].pid
       /\ pc[r] # "ready" => StillPending(work[r].pid) /\ work[r].pend.status = Verdict(r)
  /\ Active(r) /\ Kind(r) = "stage" /\ pc[r] # "ready" => work[r].pend.status = "pending"

DecisionsKnown ==
  \A r \in Requests, p \in PendingIds : Decided(r, p) => pending[p] # None

TrailInv ==
  /\ CaseInv
  /\ AnswerMatchesTraces /\ DecidedOnce /\ DecisionsKnown
  /\ \A r \in Requests : HoldsBack(r) /\ AboutToDecide(r)

-----------------------------------------------------------------------------
(***************************************************************************)
(* The inductive invariant of LedgerProofs: a version stands for one       *)
(* state, so that what is published as read before the transaction is what *)
(* the case is when the compare-and-swap has succeeded.                    *)
(***************************************************************************)

\* The case a publication has read may have moved on, but not under its version.
VersionTells(r) ==
  Active(r) /\ Kind(r) = "publish" =>
    LET current == cases[work[r].case] IN
    /\ seen[r].version <= current.version
    /\ seen[r].version = current.version => seen[r].state = current.state

\* An uncommitted row has a version of its own, or the state of the committed one.
Advances(r) ==
  Writing(r) /\ Kind(r) # "create" =>
    LET current == cases[work[r].case] IN
    /\ current.version <= work[r].row.version
    /\ work[r].row.version = current.version => work[r].row.state = current.state

\* Only publications say whether a case is published, and what it shows.
AboutToPublish(r) ==
  /\ Writing(r) => work[r].row.published =
       CASE Kind(r) \in Publishings -> Kind(r) = "publish"
         [] Kind(r) = "create"      -> FALSE
         [] OTHER                   -> cases[work[r].case].published
  /\ work[r].projects = (pc[r] \in {"projected", "logged", "recorded"} /\ Kind(r) \in Publishings)
  /\ ~work[r].projects \/ Kind(r) = "unpublish" => work[r].proj = None /\ work[r].shown = {}
  /\ Writing(r) /\ Kind(r) = "publish" =>
       /\ seen[r].state = cases[work[r].case].state
       /\ work[r].projects =>
            /\ work[r].proj # None /\ work[r].proj.state = seen[r].state
            /\ work[r].shown \subseteq {o.id : o \in History(work[r].case)}
       /\ pc[r] \in {"logged", "recorded"} => \E o \in work[r].ops : work[r].ops = {o}

PublicInv ==
  /\ ProjectionConsistent
  /\ \A r \in Requests : VersionTells(r) /\ Advances(r) /\ AboutToPublish(r)

-----------------------------------------------------------------------------
(***************************************************************************)
(* The inductive invariant of LedgerProofs: what a transaction has written *)
(* is what its command makes of the ledger as it is now, not as it was     *)
(* when the request read it.                                               *)
(***************************************************************************)

\* The row the command makes of the present one, before its operation is counted.
Intended(r) ==
  CASE Kind(r) = "create" -> NewRow(cmd[r], counter[cmd[r].year] + 1)
    [] Kind(r) \in Publishings \/ ChangesFields(r) -> Updated(r)
    [] OTHER -> cases[work[r].case]

Counted(r, row) ==
  IF pc[r] \in {"logged", "recorded"} THEN [row EXCEPT !.nextOp = @ + 1] ELSE row

RowIsIntended(r) ==
  Writing(r) /\ Kind(r) # "transition" => work[r].row = Counted(r, Intended(r))

\* A transition and the rules it has set off: every change of state is an allowed one.
RowMovesOn(r) ==
  Writing(r) /\ Kind(r) = "transition" =>
    LET current == cases[work[r].case]
        row == work[r].row IN
    /\ current.version < row.version
    /\ current.nextOp <= row.nextOp
    /\ pc[r] \in {"logged", "recorded"} => current.nextOp < row.nextOp
    /\ \E s \in States : Allowed(current.state, s) /\ Ledger!Reaches(s, row.state)

\* What is about to be shown are fields of the row that publishes them.
PageIsIntended(r) ==
  Writing(r) /\ Kind(r) = "publish" /\ work[r].projects =>
    work[r].proj.fields = [f \in cmd[r].pick |-> cases[work[r].case].fields[f]]

\* A staged payload never changes, whoever decides it.
SubmissionIsIntended(r) ==
  Active(r) /\ Kind(r) \in Decisions => work[r].pend.set = pending[work[r].pid].set

LedgerInv ==
  \A r \in Requests :
    /\ RowIsIntended(r) /\ RowMovesOn(r) /\ PageIsIntended(r) /\ SubmissionIsIntended(r)
    /\ pc[r] = "checked" => ReadsVersion(r)
=============================================================================
