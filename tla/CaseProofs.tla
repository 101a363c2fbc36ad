----------------------------- MODULE CaseProofs -----------------------------
(***************************************************************************)
(* Proofs, for every number of requests, cases, states, fields, values     *)
(* and rule actions: the invariants of CaseSafety about rows, locks,       *)
(* versions and announcements, and that the history of a case explains     *)
(* the state the case is in.                                               *)
(***************************************************************************)
EXTENDS CaseSafety, TLAPS

-----------------------------------------------------------------------------
(* Types of the pieces the steps are made of. *)

\* What a command carries, by its kind.
LEMMA CommandParts ==
  ASSUME NEW k \in Command
  PROVE  /\ k.kind = "create" => k.year \in Years /\ k.set \in Payload
         /\ k.kind = "append" => k.type \in OperationTypes
         /\ k.kind = "transition" => k.to \in States
         /\ k.kind \in {"update", "stage"} => k.set \in Payload
         /\ k.kind \in Decisions => k.pid \in PendingIds
         /\ k.kind = "publish" => k.pick \subseteq Fields /\ k.ops \subseteq Nat
         /\ k.kind \notin Decisions \cup {"create"} => k.case \in CaseKeys
         /\ k.kind \in {"create", "append", "transition", "update", "stage", "approve",
                        "reject", "publish", "unpublish"}
  BY DEF Command, Decisions

\* Writing some fields of a row leaves every field with a value.
LEMMA OverlayType ==
  ASSUME NEW set \in Payload, NEW fields \in [Fields -> Values \cup {None}]
  PROVE  Overlay(set, fields) \in [Fields -> Values \cup {None}]
  <1>1. PICK F \in SUBSET Fields : set \in [F -> Values]
    BY DEF Payload
  <1>2. QED
    BY <1>1 DEF Overlay

\* A new case row is a row.
LEMMA NewRowType ==
  ASSUME NEW k, k.year \in Years, k.set \in Payload, NEW n \in Nat
  PROVE  NewRow(k, n) \in Row
  <1>1. Overlay(k.set, [f \in Fields |-> None]) \in [Fields -> Values \cup {None}]
    BY OverlayType
  <1>2. QED
    BY <1>1, InitialStateAssumption DEF NewRow, Row

\* A version bump keeps a row a row.
LEMMA BumpType ==
  ASSUME NEW row \in Row
  PROVE  Bump(row) \in Row
  BY DEF Bump, Row

Labels == {"idle", "ready", "open", "checked", "held", "projected", "logged", "recorded", "done"}
Answers == {"ok", "refused", "illegal", "conflict", "error", None}

\* A step of one request's transaction is well typed when its work area is.
LEMMA GotoType ==
  ASSUME TypeOK, NEW r \in Requests, NEW label \in Labels, NEW w \in Work, Goto(r, label, w),
         lock' \in [Lockable -> Requests \cup {None}],
         seen' \in [Requests -> Row \cup {None}]
  PROVE  TypeOK'
  BY DEF TypeOK, Goto, tables, Labels

\* Taking locks keeps the lock table well typed.
LEMMA AcquireType ==
  ASSUME TypeOK, NEW r \in Requests, NEW xs, Acquire(r, xs)
  PROVE  lock' \in [Lockable -> Requests \cup {None}]
  BY DEF TypeOK, Acquire

\* The empty work area is a work area.
LEMMA NoWorkType == NoWork \in Work
  BY DEF NoWork, Work

\* A rollback is well typed.
LEMMA AbandonType ==
  ASSUME TypeOK, NEW r \in Requests, NEW told \in Answers, Abandon(r, told)
  PROVE  TypeOK'
  BY NoWorkType DEF TypeOK, Abandon, Undo, Discard, Release, Finish, tables, Answers

\* A commit is well typed.
LEMMA CommitType ==
  ASSUME CaseInv, NEW r \in Requests, NEW told \in Answers,
         pc[r] = "recorded", Install(r), Finish(r, told)
  PROVE  TypeOK'
  <1>1. work[r] \in Work /\ Active(r) /\ Writing(r) /\ RequestInv(r) /\ TypeOK
    BY DEF CaseInv, TypeOK, Active, Writing
  <1>2. /\ work[r].row \in Row
        /\ work[r].case \in CaseKeys
        /\ work[r].pid # None => work[r].pend \in PendingRow /\ work[r].pid \in PendingIds
    BY <1>1 DEF RequestInv, Carries, OnCase, OnPending, Work
  <1>3. /\ counter' \in [Years -> Nat]
        /\ cases' \in [CaseKeys -> Row \cup {None}]
    BY <1>1, <1>2 DEF Install, TypeOK, Row
  <1>4. /\ operations' \subseteq Operation
        /\ audit' \subseteq Event
        /\ outbox' \subseteq Event
    BY <1>1 DEF Install, TypeOK, Work
  <1>5. /\ pending' \in [PendingIds -> PendingRow \cup {None}]
        /\ projection' \in [CaseKeys -> Projection \cup {None}]
    BY <1>1, <1>2 DEF Install, TypeOK, Work
  <1>6. shownOps' \subseteq CaseKeys \X Nat
    BY <1>1, <1>2 DEF Install, TypeOK, Work
  <1>7. lock' \in [Lockable -> Requests \cup {None}]
    BY <1>1 DEF Install, Release, TypeOK
  <1>8. /\ pc' \in [Requests -> Labels]
        /\ cmd' \in [Requests -> Command \cup {None}]
        /\ seen' \in [Requests -> Row \cup {None}]
        /\ work' \in [Requests -> Work]
        /\ answer' \in [Requests -> Answers]
    BY <1>1, NoWorkType DEF Finish, TypeOK, Labels, Answers
  <1>9. QED
    BY <1>3, <1>4, <1>5, <1>6, <1>7, <1>8 DEF TypeOK, Labels, Answers

-----------------------------------------------------------------------------
(* Every step is well typed. *)

\* What is known of a request that is being served.
LEMMA ActorParts ==
  ASSUME CaseInv, NEW r \in Requests, Active(r)
  PROVE  /\ TypeOK /\ RequestInv(r)
         /\ cmd[r] \in Command /\ work[r] \in Work
         /\ Kind(r) # "create" => work[r].case \in CaseKeys /\ cases[work[r].case] \in Row
         /\ Kind(r) \in Decisions => work[r].pid \in PendingIds /\ work[r].pend \in PendingRow
         /\ Writing(r) => work[r].row \in Row /\ work[r].case \in CaseKeys
         /\ Kind(r) \in Publishings => seen[r] \in Row
         /\ pc[r] = "checked" => seen[r] \in Row
  <1>1. TypeOK /\ RequestInv(r) /\ cmd[r] \in Command /\ work[r] \in Work
    BY DEF CaseInv, TypeOK, RequestInv, Carries, Active
  <1>2. Kind(r) # "create" => work[r].case \in CaseKeys /\ cases[work[r].case] \in Row
    BY <1>1 DEF RequestInv, OnCase, Exists, Work, TypeOK
  <1>3. Kind(r) \in Decisions => work[r].pid \in PendingIds /\ work[r].pend \in PendingRow
    BY <1>1 DEF RequestInv, OnPending, Work
  <1>4. Writing(r) => work[r].row \in Row /\ work[r].case \in CaseKeys
    BY <1>1 DEF RequestInv, OnCase, Carries, Work
  <1>5. /\ Kind(r) \in Publishings => seen[r] \in Row
        /\ pc[r] = "checked" => seen[r] \in Row
    BY <1>1 DEF RequestInv, Carries, TypeOK
  <1>6. QED
    BY <1>1, <1>2, <1>3, <1>4, <1>5

\* The case row an UPDATE leaves is a row, of the same case.
LEMMA UpdatedType ==
  ASSUME CaseInv, NEW r \in Requests, ReadyToUpdate(r)
  PROVE  /\ Updated(r) \in Row
         /\ Updated(r).nextOp = cases[work[r].case].nextOp
         /\ Updated(r).year = cases[work[r].case].year
         /\ Updated(r).number = cases[work[r].case].number
  <1>1. Active(r) /\ Kind(r) # "create"
    BY DEF ReadyToUpdate, Active, CaseInv, RequestInv, Carries, Publishings
  <1>2. cases[work[r].case] \in Row /\ cmd[r] \in Command
    BY <1>1, ActorParts
  <1>3. Bump(cases[work[r].case]) \in Row
    BY <1>2, BumpType
  <1>4. CASE Kind(r) = "transition"
    BY <1>2, <1>3, <1>4, CommandParts DEF Updated, Bump, Row, Kind
  <1>5. CASE Kind(r) \in {"update", "approve"}
    <2>1. Submitted(r) \in Payload
      BY <1>1, <1>2, <1>5, ActorParts, CommandParts DEF Submitted, Kind, Decisions, PendingRow
    <2>2. Overlay(Submitted(r), Bump(cases[work[r].case]).fields) \in [Fields -> Values \cup {None}]
      BY <2>1, <1>3, OverlayType DEF Row
    <2>3. QED
      BY <2>2, <1>2, <1>3, <1>5 DEF Updated, Bump, Row
  <1>6. CASE Kind(r) \notin {"transition", "update", "approve"}
    BY <1>2, <1>3, <1>6 DEF Updated, Bump, Row
  <1>7. QED
    BY <1>4, <1>5, <1>6

\* The operation a command logs is an operation of its case.
LEMMA LoggedOperationType ==
  ASSUME CaseInv, NEW r \in Requests, Active(r), CaseRow(r) \in Row, work[r].case \in CaseKeys
  PROVE  LoggedOperation(r) \in Operation
  <1>1. cmd[r] \in Command /\ (Kind(r) = "transition" => seen[r] \in Row)
    BY ActorParts DEF RequestInv, Carries, TypeOK
  <1>2. LoggedType(r) \in OperationTypes
    BY <1>1, CommandParts DEF LoggedType, OperationTypes, Kind
  <1>3. OperationId(r) \in Nat
    BY DEF OperationId, Row
  <1>4. QED
    BY <1>1, <1>2, <1>3, CommandParts, InitialStateAssumption
    DEF LoggedOperation, Operation, Row, Kind

\* The audit events and messages of a command are events.
LEMMA EventsType ==
  ASSUME NEW r \in Requests, work[r].case \in CaseKeys, NEW names \in SUBSET EventNames
  PROVE  Events(r, names) \subseteq Event
  BY DEF Events, Event

-----------------------------------------------------------------------------
(* The steps inside a request's transaction disturb nobody else. *)

\* The locks r takes or gives back were free or its own.
LocksOnly(r) ==
  \A x \in Lockable : lock'[x] = lock[x] \/ (lock[x] \in {None, r} /\ lock'[x] \in {None, r})

OthersStand(r) ==
  \A q \in Requests \ {r} :
    /\ pc'[q] = pc[q] /\ cmd'[q] = cmd[q] /\ seen'[q] = seen[q] /\ work'[q] = work[q]

LocalStep(r) == LocksOnly(r) /\ OthersStand(r) /\ UNCHANGED tables

\* What holds of another request still holds after a local step of r.
LEMMA LocalFrame ==
  ASSUME CaseInv, NEW r \in Requests, LocalStep(r), NEW q \in Requests \ {r}
  PROVE  RequestInv(q)'
  <1>1. RequestInv(q) /\ TypeOK /\ q # r /\ q # None
    BY NoneAssumption DEF CaseInv
  <1>2. /\ pc'[q] = pc[q] /\ cmd'[q] = cmd[q] /\ seen'[q] = seen[q] /\ work'[q] = work[q]
        /\ UNCHANGED tables
    BY DEF LocalStep, OthersStand
  <1>3. \A x \in Lockable : lock'[x] = q <=> lock[x] = q
    BY <1>1 DEF LocalStep, LocksOnly
  <1>4. /\ (Active(q))' = Active(q) /\ (Writing(q))' = Writing(q) /\ Kind(q)' = Kind(q)
    BY <1>2 DEF Active, Writing, Kind
  <1>5. Carries(q)'
    BY <1>1, <1>2, <1>4 DEF RequestInv, Carries
  <1>6. OnPending(q)'
    <2>1. Active(q) /\ Kind(q) \in Decisions \cup {"stage"} /\ pc[q] # "ready"
            => work[q].pid \in Lockable
      BY <1>1 DEF RequestInv, OnPending, TypeOK, Work, Lockable
    <2>2. QED
      BY <1>1, <1>2, <1>3, <1>4, <2>1 DEF RequestInv, OnPending, tables
  <1>7. OnCase(q)'
    BY <1>1, <1>2, <1>4 DEF RequestInv, OnCase, tables, Exists
  <1>8. HoldsLocks(q)'
    <2>1. Writing(q) => work[q].case \in Lockable
      BY <1>1 DEF RequestInv, OnCase, Writing, Active, TypeOK, Work, Lockable
    <2>2. Writing(q) /\ Kind(q) = "create" => cmd[q].year \in Lockable
      BY <1>1, CommandParts
      DEF RequestInv, Carries, Writing, Kind, TypeOK, Lockable
    <2>3. CaseKeys \subseteq Lockable
      BY DEF Lockable
    <2>4. QED
      BY <1>1, <1>2, <1>3, <1>4, <2>1, <2>2, <2>3 DEF RequestInv, HoldsLocks
  <1>9. ContinuesHistory(q)'
    BY <1>1, <1>2, <1>4 DEF RequestInv, ContinuesHistory, NextId, Exists, tables
  <1>10. QED
    BY <1>5, <1>6, <1>7, <1>8, <1>9 DEF RequestInv

\* The committed tables stay numbered when nothing is committed.
LEMMA TablesFrame ==
  ASSUME CaseInv, UNCHANGED tables
  PROVE  HistoryNumbered' /\ CountersMatch' /\ SubmissionsHaveCases'
  <1>1. /\ counter' = counter /\ cases' = cases /\ operations' = operations /\ pending' = pending
        /\ HistoryNumbered /\ CountersMatch /\ SubmissionsHaveCases
    BY DEF tables, CaseInv
  <1>2. \A c \in CaseKeys :
          Exists(c)' = Exists(c) /\ NextId(c)' = NextId(c) /\ History(c)' = History(c)
    BY <1>1 DEF Exists, NextId, History
  <1>3. HistoryNumbered'
    BY <1>1, <1>2 DEF HistoryNumbered, Numbers
  <1>4. CountersMatch'
    BY <1>1 DEF CountersMatch, Exists
  <1>5. SubmissionsHaveCases'
    BY <1>1 DEF SubmissionsHaveCases, Exists
  <1>6. QED
    BY <1>3, <1>4, <1>5

\* A local step preserves the invariant when it is well typed and leaves r well.
LEMMA LocalInv ==
  ASSUME CaseInv, NEW r \in Requests, LocalStep(r), TypeOK', RequestInv(r)'
  PROVE  CaseInv'
  BY LocalFrame, TablesFrame DEF CaseInv, LocalStep

-----------------------------------------------------------------------------
(* Each step of a request. *)

\* A rollback leaves nothing behind but the answer.
LEMMA AbandonInv ==
  ASSUME CaseInv, NEW r \in Requests, NEW told \in Answers, Active(r), Abandon(r, told)
  PROVE  CaseInv'
  <1>1. TypeOK'
    BY AbandonType DEF CaseInv
  <1>2. LocalStep(r)
    BY DEF LocalStep, LocksOnly, OthersStand, Abandon, Undo, Discard, Release, Finish,
           CaseInv, TypeOK
  <1>3. RequestInv(r)'
    <2>1. /\ pc'[r] = "done" /\ work'[r] = NoWork /\ cmd'[r] = cmd[r] /\ cmd[r] # None
          /\ \A x \in Lockable : lock'[x] # r
      BY NoneAssumption
      DEF CaseInv, RequestInv, Carries, TypeOK, Abandon, Undo, Discard, Release, Finish, Active
    <2>2. /\ ~(Active(r))' /\ ~(Writing(r))'
      BY <2>1 DEF Active, Writing
    <2>3. Carries(r)' /\ OnPending(r)' /\ OnCase(r)' /\ ContinuesHistory(r)'
      BY <2>1, <2>2 DEF Carries, OnPending, OnCase, ContinuesHistory, NoWork
    <2>4. HoldsLocks(r)'
      BY <2>1, <2>2 DEF HoldsLocks, Lockable
    <2>5. QED
      BY <2>3, <2>4 DEF RequestInv
  <1>4. QED
    BY <1>1, <1>2, <1>3, LocalInv

\* A refused request has not begun its transaction.
LEMMA RefuseInv ==
  ASSUME CaseInv, NEW r \in Requests, Refuse(r)
  PROVE  CaseInv'
  <1>1. Active(r) /\ ~Writing(r) /\ TypeOK /\ RequestInv(r)
    BY DEF Refuse, Active, Writing, CaseInv
  <1>2. TypeOK'
    BY <1>1, NoWorkType DEF Refuse, Finish, TypeOK, tables
  <1>3. LocalStep(r)
    BY DEF LocalStep, LocksOnly, OthersStand, Refuse, Finish, CaseInv, TypeOK
  <1>4. RequestInv(r)'
    <2>1. /\ pc'[r] = "done" /\ work'[r] = NoWork /\ cmd'[r] = cmd[r] /\ cmd[r] # None
          /\ lock' = lock
      BY <1>1 DEF RequestInv, Carries, TypeOK, Refuse, Finish, Active
    <2>2. /\ ~(Active(r))' /\ ~(Writing(r))'
      BY <2>1 DEF Active, Writing
    <2>3. Carries(r)' /\ OnPending(r)' /\ OnCase(r)' /\ ContinuesHistory(r)'
      BY <2>1, <2>2 DEF Carries, OnPending, OnCase, ContinuesHistory, NoWork
    <2>4. HoldsLocks(r)'
      BY <1>1, <2>1, <2>2 DEF RequestInv, HoldsLocks
    <2>5. QED
      BY <2>3, <2>4 DEF RequestInv
  <1>5. QED
    BY <1>2, <1>3, <1>4, LocalInv

\* A request that arrives has read committed rows and written nothing.
LEMMA AcceptInv ==
  ASSUME CaseInv, NEW r \in Requests, NEW k \in Command, None # k, NEW row, NEW w \in Work,
         Accept(r, k, row, w), row \in Row \cup {None},
         w.row = None, w.ops = {},
         k.kind \in Publishings \cup {"transition"} => row # None,
         k.kind # "create" => w.case # None /\ Exists(w.case),
         k.kind \in Decisions =>
           /\ w.pid # None /\ w.pend # None /\ pending[w.pid] # None
           /\ w.pend.case = w.case /\ pending[w.pid].case = w.case,
         w.pid # None => k.kind \in Decisions
  PROVE  CaseInv'
  <1>1. TypeOK /\ RequestInv(r) /\ ~Writing(r) /\ pc[r] = "idle"
    BY DEF CaseInv, Accept, Writing
  <1>2. TypeOK'
    BY <1>1 DEF Accept, TypeOK, tables
  <1>3. LocalStep(r)
    BY <1>1 DEF LocalStep, LocksOnly, OthersStand, Accept, TypeOK
  <1>4. RequestInv(r)'
    <2>1. /\ pc'[r] = "ready" /\ work'[r] = w /\ cmd'[r] = k /\ seen'[r] = row
          /\ lock' = lock /\ UNCHANGED tables
      BY <1>1 DEF TypeOK, Accept
    <2>2. /\ (Active(r))' /\ ~(Writing(r))' /\ Kind(r)' = k.kind
      BY <2>1 DEF Active, Writing, Kind
    <2>3. Carries(r)'
      BY <2>1, <2>2 DEF Carries
    <2>4. OnPending(r)'
      BY <2>1, <2>2 DEF OnPending, tables, Decisions
    <2>5. OnCase(r)' /\ ContinuesHistory(r)'
      BY <2>1, <2>2 DEF OnCase, ContinuesHistory, tables, Exists
    <2>6. HoldsLocks(r)'
      BY <1>1, <2>1, <2>2 DEF RequestInv, HoldsLocks
    <2>7. QED
      BY <2>3, <2>4, <2>5, <2>6 DEF RequestInv
  <1>5. QED
    BY <1>2, <1>3, <1>4, LocalInv

LEMMA ReceiveInv ==
  ASSUME CaseInv, NEW r \in Requests,
         ReceiveCreate(r) \/ ReceiveOnCase(r) \/ ReceiveDecision(r)
  PROVE  CaseInv'
  <1>1. TypeOK
    BY DEF CaseInv
  <1>2. CASE ReceiveCreate(r)
    <2>1. PICK k \in Commands : k.kind = "create" /\ Accept(r, k, None, NoWork)
      BY <1>2 DEF ReceiveCreate
    <2>2. QED
      BY <2>1, AcceptInv, NoWorkType, CommandsAssumption DEF NoWork, Publishings, Decisions
  <1>3. CASE ReceiveOnCase(r)
    <2>1. PICK k \in Commands :
            /\ k.kind \notin Decisions \cup {"create"} /\ cases[k.case] # None
            /\ Accept(r, k, cases[k.case], [NoWork EXCEPT !.case = k.case])
      BY <1>3 DEF ReceiveOnCase
    <2>2. k \in Command /\ k # None /\ k.case \in CaseKeys
      BY <2>1, CommandsAssumption, CommandParts
    <2>3. [NoWork EXCEPT !.case = k.case] \in Work
      BY <2>2 DEF NoWork, Work
    <2>4. QED
      BY <1>1, <2>1, <2>2, <2>3, AcceptInv, NoneAssumption
      DEF NoWork, TypeOK, Exists, Decisions, Publishings
  <1>4. CASE ReceiveDecision(r)
    <2> DEFINE w(k) == [NoWork EXCEPT !.case = pending[k.pid].case, !.pid = k.pid,
                                      !.pend = pending[k.pid]]
    <2>1. PICK k \in Commands :
            /\ k.kind \in Decisions /\ pending[k.pid] # None
            /\ Accept(r, k, cases[pending[k.pid].case], w(k))
      BY <1>4 DEF ReceiveDecision
    <2>2. k \in Command /\ k # None /\ k.pid \in PendingIds /\ k.pid # None
      BY <2>1, CommandsAssumption, CommandParts, NoneAssumption
    <2>3. pending[k.pid] \in PendingRow /\ pending[k.pid].case \in CaseKeys
      BY <1>1, <2>1, <2>2 DEF TypeOK, PendingRow
    <2>4. w(k) \in Work
      BY <2>2, <2>3 DEF NoWork, Work
    <2>5. Exists(pending[k.pid].case)
      BY <2>1, <2>2 DEF CaseInv, SubmissionsHaveCases
    <2>6. QED
      BY <1>1, <2>1, <2>2, <2>3, <2>4, <2>5, AcceptInv, NoneAssumption
      DEF NoWork, TypeOK, Exists, Decisions, Publishings
  <1>5. QED
    BY <1>2, <1>3, <1>4

\* A statement that takes the locks xs, which were free or its own, is a local
\* step; so is one that takes none.
LEMMA GotoLocal ==
  ASSUME CaseInv, NEW r \in Requests, NEW label \in Labels, NEW w \in Work, NEW xs,
         Goto(r, label, w), Acquire(r, xs) \/ UNCHANGED lock,
         \A x \in xs \cap Lockable : OwnedOrFree(r, x), UNCHANGED seen
  PROVE  /\ TypeOK' /\ LocalStep(r)
         /\ pc'[r] = label /\ work'[r] = w /\ Kind(r)' = Kind(r)
  <1>1. TypeOK
    BY DEF CaseInv
  <1>2. lock' \in [Lockable -> Requests \cup {None}] /\ seen' \in [Requests -> Row \cup {None}]
    BY <1>1, AcquireType DEF TypeOK
  <1>3. TypeOK'
    BY <1>1, <1>2, GotoType
  <1>4. LocksOnly(r)
    BY DEF LocksOnly, Acquire, OwnedOrFree
  <1>5. OthersStand(r) /\ pc'[r] = label /\ work'[r] = w /\ Kind(r)' = Kind(r)
    BY <1>1 DEF OthersStand, Goto, TypeOK, Kind
  <1>6. QED
    BY <1>3, <1>4, <1>5 DEF LocalStep, Goto

\* Allocating a number and inserting the case: nobody else knows the case.
LEMMA AllocateNumberInv ==
  ASSUME CaseInv, NEW r \in Requests, AllocateNumber(r)
  PROVE  CaseInv'
  <1> DEFINE y == cmd[r].year
             row == NewRow(cmd[r], counter[y] + 1)
  <1>1. PICK c \in CaseKeys :
          /\ cases[c] = None /\ Free(c) /\ Acquire(r, {y, c})
          /\ Goto(r, "held", [work[r] EXCEPT !.case = c, !.row = row])
    BY DEF AllocateNumber
  <1> DEFINE w == [work[r] EXCEPT !.case = c, !.row = row]
  <1>2. /\ pc[r] = "ready" /\ Kind(r) = "create" /\ Free(y) /\ UNCHANGED <<seen, tables>>
        /\ Active(r) /\ ~Writing(r) /\ UNCHANGED cmd
    BY <1>1 DEF AllocateNumber, CounterFree, Active, Writing, Goto
  <1>3. /\ TypeOK /\ RequestInv(r) /\ cmd[r] \in Command /\ work[r] \in Work
    BY <1>2, ActorParts
  <1>4. y \in Years /\ cmd[r].set \in Payload /\ y \in Lockable /\ c \in Lockable
    BY <1>2, <1>3, CommandParts DEF Kind, Lockable
  <1>5. counter[y] \in Nat /\ row \in Row
    BY <1>3, <1>4, NewRowType DEF TypeOK
  <1>6. row.year = y /\ row.number = counter[y] + 1 /\ row.nextOp = 1
    BY DEF NewRow
  <1>7. w \in Work
    BY <1>3, <1>5 DEF Work
  <1> HIDE DEF row
  <1>8. w.case = c /\ w.row = row /\ w.ops = {} /\ w.pid = work[r].pid
    BY <1>2, <1>3 DEF Work, RequestInv, Carries
  <1> HIDE DEF w
  <1>9. /\ TypeOK' /\ LocalStep(r)
        /\ pc'[r] = "held" /\ work'[r] = w /\ Kind(r)' = "create"
    <2>1. \A x \in {y, c} \cap Lockable : OwnedOrFree(r, x)
      BY <1>1, <1>2 DEF Free, OwnedOrFree
    <2>2. "held" \in Labels
      BY DEF Labels
    <2>3. QED
      BY <1>1, <1>2, <1>7, <2>1, <2>2, GotoLocal DEF w
  <1>10. RequestInv(r)'
    <2>1. (Active(r))' /\ (Writing(r))'
      BY <1>9 DEF Active, Writing
    <2>2. lock'[y] = r /\ lock'[c] = r
      BY <1>1, <1>4 DEF Acquire
    <2>3. \A d \in CaseKeys : lock'[d] = r => d = c
      <3>1. \A d \in CaseKeys : d # y
        BY <1>4, LockAssumption
      <3>2. QED
        BY <1>1, <1>2, <1>3, <3>1 DEF RequestInv, HoldsLocks, Acquire, Lockable
    <2>4. Carries(r)'
      BY <1>2, <1>3, <1>5, <1>8, <1>9, <2>1, NoRowAssumption
      DEF Carries, RequestInv, Decisions, Publishings, Active
    <2>5. OnPending(r)'
      BY <1>2, <1>3, <1>8, <1>9, <2>1 DEF OnPending, RequestInv, Decisions
    <2>6. OnCase(r)'
      BY <1>1, <1>2, <1>6, <1>8, <1>9, <2>1, NoneAssumption DEF OnCase, Exists, tables
    <2>7. HoldsLocks(r)'
      BY <1>2, <1>8, <1>9, <2>1, <2>2, <2>3 DEF HoldsLocks
    <2>8. ContinuesHistory(r)'
      BY <1>1, <1>2, <1>6, <1>8, <1>9, <2>1
      DEF ContinuesHistory, Numbers, NextId, Exists, tables
    <2>9. QED
      BY <2>4, <2>5, <2>6, <2>7, <2>8 DEF RequestInv
  <1>11. QED
    BY <1>9, <1>10, LocalInv

\* Writing a row of pending_case_updates takes its lock and no case.
LEMMA PendingWriteInv ==
  ASSUME CaseInv, NEW r \in Requests, NEW p \in PendingIds, NEW row \in PendingRow,
         pc[r] = "ready", Kind(r) \in Decisions \cup {"stage"}, Free(p), Acquire(r, {p}),
         Goto(r, "open", [work[r] EXCEPT !.pid = p, !.pend = row]), UNCHANGED seen,
         row.case = work[r].case,
         Kind(r) = "stage" => pending[p] = None,
         Kind(r) \in Decisions => pending[p] # None /\ pending[p].case = row.case
  PROVE  CaseInv'
  <1> DEFINE w == [work[r] EXCEPT !.pid = p, !.pend = row]
  <1>1. /\ TypeOK /\ RequestInv(r) /\ work[r] \in Work /\ Active(r) /\ ~Writing(r)
        /\ UNCHANGED <<tables, cmd, seen>>
    BY ActorParts DEF Active, Writing, Goto
  <1>2. /\ w \in Work /\ w.pid = p /\ w.pend = row /\ w.case = work[r].case
        /\ w.row = None /\ w.ops = {} /\ p # None /\ row # None /\ p \in Lockable
    BY <1>1, NoneAssumption, NoRowAssumption DEF Work, RequestInv, Carries, Lockable
  <1> HIDE DEF w
  <1>3. /\ TypeOK' /\ LocalStep(r)
        /\ pc'[r] = "open" /\ work'[r] = w /\ Kind(r)' = Kind(r)
    <2>1. \A x \in {p} \cap Lockable : OwnedOrFree(r, x)
      BY DEF Free, OwnedOrFree
    <2>2. QED
      BY <1>2, <2>1, GotoLocal DEF w, Labels
  <1>4. RequestInv(r)'
    <2>1. (Active(r))' /\ ~(Writing(r))'
      BY <1>3 DEF Active, Writing
    <2>2. lock'[p] = r /\ \A c \in CaseKeys : lock'[c] = lock[c]
      BY <1>2, LockAssumption DEF Acquire, Lockable
    <2>3. Carries(r)'
      BY <1>1, <1>2, <1>3, <2>1 DEF Carries, RequestInv, Decisions, Publishings, Active
    <2>4. OnPending(r)'
      BY <1>1, <1>2, <1>3, <2>1, <2>2 DEF OnPending, tables
    <2>5. OnCase(r)'
      BY <1>1, <1>2, <1>3, <2>1 DEF RequestInv, OnCase, Exists, tables, Decisions
    <2>6. HoldsLocks(r)' /\ ContinuesHistory(r)'
      BY <1>1, <2>1, <2>2 DEF RequestInv, HoldsLocks, ContinuesHistory
    <2>7. QED
      BY <2>3, <2>4, <2>5, <2>6 DEF RequestInv
  <1>5. QED
    BY <1>3, <1>4, LocalInv

LEMMA InsertPendingInv ==
  ASSUME CaseInv, NEW r \in Requests, InsertPending(r)
  PROVE  CaseInv'
  <1> DEFINE row == [case |-> work[r].case, set |-> cmd[r].set, status |-> "pending"]
  <1>1. PICK p \in PendingIds :
          /\ pending[p] = None /\ Free(p) /\ Acquire(r, {p})
          /\ Goto(r, "open", [work[r] EXCEPT !.pid = p, !.pend = row])
    BY DEF InsertPending
  <1>2. pc[r] = "ready" /\ Kind(r) = "stage" /\ UNCHANGED seen /\ Active(r)
    BY DEF InsertPending, Active
  <1>3. row \in PendingRow
    BY <1>2, ActorParts, CommandParts DEF PendingRow, Kind
  <1>4. QED
    BY <1>1, <1>2, <1>3, PendingWriteInv DEF Decisions

LEMMA DecidePendingInv ==
  ASSUME CaseInv, NEW r \in Requests, DecidePending(r)
  PROVE  CaseInv'
  <1> DEFINE p == work[r].pid
             row == [work[r].pend EXCEPT !.status = Verdict(r)]
  <1>1. /\ pc[r] = "ready" /\ Kind(r) \in Decisions /\ UNCHANGED seen /\ Active(r)
        /\ Free(p) /\ Acquire(r, {p})
    BY DEF DecidePending, Active
  <1>2. /\ p \in PendingIds /\ work[r] \in Work /\ work[r].pend \in PendingRow
        /\ pending[p] # None /\ pending[p].case = work[r].case /\ work[r].pend.case = work[r].case
    BY <1>1, ActorParts DEF RequestInv, OnPending
  <1>3. row \in PendingRow /\ row.case = work[r].case
    BY <1>1, <1>2 DEF PendingRow, Verdict
  <1>4. Goto(r, "open", [work[r] EXCEPT !.pid = p, !.pend = row])
    <2>1. [work[r] EXCEPT !.pend.status = Verdict(r)] = [work[r] EXCEPT !.pid = p, !.pend = row]
      BY <1>2 DEF Work
    <2>2. QED
      BY <2>1 DEF DecidePending
  <1>5. QED
    BY <1>1, <1>2, <1>3, <1>4, PendingWriteInv DEF Decisions

\* Reading the version only remembers the committed row.
LEMMA ReadVersionInv ==
  ASSUME CaseInv, NEW r \in Requests, ReadVersion(r)
  PROVE  CaseInv'
  <1>1. /\ Active(r) /\ ~Writing(r) /\ pc[r] \in {"open", "ready"}
        /\ Kind(r) \in {"transition", "update", "approve"}
        /\ UNCHANGED <<tables, lock, cmd>>
    BY DEF ReadVersion, AtEntry, ReadsVersion, ChangesFields, Active, Writing, Goto
  <1>2. Kind(r) = "approve" => pc[r] = "open"
    BY DEF ReadVersion, AtEntry, Decisions
  <1>3. /\ TypeOK /\ RequestInv(r) /\ work[r] \in Work /\ cases[work[r].case] \in Row
    BY <1>1, ActorParts
  <1>4. seen' \in [Requests -> Row \cup {None}] /\ seen'[r] # None
    BY <1>3, NoRowAssumption DEF ReadVersion, TypeOK
  <1>5. TypeOK'
    BY <1>1, <1>3, <1>4, GotoType DEF ReadVersion, TypeOK, Labels
  <1>6. /\ LocalStep(r)
        /\ pc'[r] = "checked" /\ work'[r] = work[r] /\ Kind(r)' = Kind(r)
    BY <1>1, <1>3 DEF ReadVersion, Goto, LocalStep, LocksOnly, OthersStand, TypeOK, Kind
  <1>7. RequestInv(r)'
    <2>1. (Active(r))' /\ ~(Writing(r))'
      BY <1>6 DEF Active, Writing
    <2>2. Carries(r)'
      BY <1>1, <1>3, <1>4, <1>6, <2>1 DEF Carries, RequestInv, Publishings, Active
    <2>3. OnPending(r)' /\ OnCase(r)'
      BY <1>1, <1>2, <1>3, <1>6, <2>1 DEF RequestInv, OnPending, OnCase, Exists, tables, Decisions
    <2>4. HoldsLocks(r)' /\ ContinuesHistory(r)'
      BY <1>1, <1>3, <2>1 DEF RequestInv, HoldsLocks, ContinuesHistory
    <2>5. QED
      BY <2>2, <2>3, <2>4 DEF RequestInv
  <1>8. QED
    BY <1>5, <1>6, <1>7, LocalInv

-----------------------------------------------------------------------------
(* The steps that write the case row and the history. *)

\* An operation with the next id continues a numbering.
LEMMA NumbersAppend ==
  ASSUME NEW ops \in SUBSET Operation, NEW first \in Nat, NEW next \in Nat,
         Numbers(ops, first, next), NEW o \in Operation, o.id = next
  PROVE  Numbers(ops \cup {o}, first, next + 1)
  <1>1. \A q \in ops : q.id \in Nat
    BY DEF Operation
  <1>2. QED
    BY <1>1 DEF Numbers

\* Two numberings, one after the other, are one numbering.
LEMMA NumbersConcat ==
  ASSUME NEW A \in SUBSET Operation, NEW B \in SUBSET Operation,
         NEW first \in Nat, NEW mid \in Nat, NEW next \in Nat,
         Numbers(A, first, mid), Numbers(B, mid, next)
  PROVE  Numbers(A \cup B, first, next)
  <1>1. \A q \in A \cup B : q.id \in Nat
    BY DEF Operation
  <1>2. first <= next /\ \A o \in A \cup B : first <= o.id /\ o.id < next
    BY <1>1 DEF Numbers
  <1>3. \A i \in first .. (next - 1) : \E o \in A \cup B : o.id = i
    <2>1. SUFFICES ASSUME NEW i \in first .. (next - 1) PROVE \E o \in A \cup B : o.id = i
      OBVIOUS
    <2>2. CASE i < mid
      BY <2>2 DEF Numbers
    <2>3. CASE mid <= i
      BY <2>3 DEF Numbers
    <2>4. QED
      BY <2>2, <2>3
  <1>4. \A o1, o2 \in A \cup B : o1.id = o2.id => o1 = o2
    BY <1>1 DEF Numbers
  <1>5. QED
    BY <1>2, <1>3, <1>4 DEF Numbers

\* A write of the locked case row that keeps its number and continues the history.
LEMMA CaseWriteInv ==
  ASSUME CaseInv, NEW r \in Requests, Active(r),
         NEW label \in {"held", "projected", "logged", "recorded"}, NEW w \in Work,
         Goto(r, label, w), Acquire(r, {work[r].case}) \/ (Writing(r) /\ UNCHANGED lock),
         OwnedOrFree(r, work[r].case), UNCHANGED seen,
         w.case = work[r].case, w.pid = work[r].pid, w.pend = work[r].pend,
         w.row \in Row, w.row.year = CaseRow(r).year, w.row.number = CaseRow(r).number,
         \A o \in w.ops : o.case = w.case,
         Numbers(w.ops, NextId(w.case), w.row.nextOp),
         label = "projected" => Kind(r) \in Publishings,
         Kind(r) \in Decisions \cup {"stage"} => pc[r] # "ready",
         Kind(r) = "create" => Writing(r)
  PROVE  CaseInv'
  <1> DEFINE c == work[r].case
  <1>1. /\ TypeOK /\ RequestInv(r) /\ cmd[r] \in Command /\ c \in CaseKeys /\ c \in Lockable
        /\ UNCHANGED <<tables, cmd, seen>>
    BY ActorParts DEF Goto, Lockable
  <1>2. /\ TypeOK' /\ LocalStep(r)
        /\ pc'[r] = label /\ work'[r] = w /\ Kind(r)' = Kind(r)
    BY GotoLocal DEF Labels
  <1>3. (Active(r))' /\ (Writing(r))' /\ w.row # None
    BY <1>2, NoRowAssumption DEF Active, Writing
  <1>4. lock'[c] = r
    BY <1>1 DEF Acquire, RequestInv, HoldsLocks
  <1>5. Carries(r)'
    <2>1. pc'[r] \notin {"idle", "ready", "open", "checked"}
      BY <1>2
    <2>2. cmd[r] # None /\ (Kind(r) \in Publishings \cup {"transition"} => seen[r] # None)
      BY <1>1 DEF Carries, RequestInv, Active
    <2>3. pc'[r] = "projected" => Kind(r)' \in Publishings
      BY <1>2
    <2>4. QED
      BY <1>1, <1>2, <1>3, <2>1, <2>2, <2>3 DEF Carries
  <1>6. OnPending(r)'
    <2>1. Active(r) /\ Kind(r) \in Decisions \cup {"stage"} => lock'[work[r].pid] = r
      <3>1. HAVE Active(r) /\ Kind(r) \in Decisions \cup {"stage"}
      <3>2. lock[work[r].pid] = r /\ work[r].pid \in PendingIds
        BY <1>1, <3>1 DEF RequestInv, OnPending, TypeOK, Work
      <3>3. QED
        BY <1>1, <3>2 DEF Acquire, Lockable
    <2>2. QED
      BY <1>1, <1>2, <1>3, <2>1 DEF RequestInv, OnPending, tables
  <1>7. OnCase(r)'
    <2>1. CASE Kind(r) = "create"
      <3>1. /\ Writing(r) /\ c # None /\ ~Exists(c) /\ work[r].row # None
            /\ work[r].row.year = cmd[r].year /\ work[r].row.number = counter[cmd[r].year] + 1
        BY <1>1, <2>1 DEF RequestInv, OnCase, Carries
      <3>2. QED
        BY <1>1, <1>2, <1>3, <2>1, <3>1 DEF OnCase, CaseRow, Exists, tables
    <2>2. CASE Kind(r) # "create"
      <3>1. /\ CaseRow(r).year = cases[c].year /\ CaseRow(r).number = cases[c].number
        BY <1>1, <2>2 DEF RequestInv, OnCase, Carries, CaseRow
      <3>2. QED
        BY <1>1, <1>2, <1>3, <2>2, <3>1 DEF RequestInv, OnCase, Exists, tables
    <2>3. QED
      BY <2>1, <2>2
  <1>8. HoldsLocks(r)'
    <2>1. Writing(r) /\ Kind(r) = "create" => lock'[cmd[r].year] = r
      <3>1. HAVE Writing(r) /\ Kind(r) = "create"
      <3>2. cmd[r].year \in Lockable
        BY <1>1, <3>1, CommandParts DEF Kind, Lockable
      <3>3. QED
        BY <1>1, <3>1, <3>2 DEF RequestInv, HoldsLocks, Acquire
    <2>2. \A d \in CaseKeys : lock'[d] = r => d = c
      BY <1>1 DEF RequestInv, HoldsLocks, Acquire, Lockable
    <2>3. QED
      BY <1>1, <1>2, <1>3, <1>4, <2>1, <2>2 DEF HoldsLocks
  <1>9. ContinuesHistory(r)'
    BY <1>1, <1>2, <1>3 DEF ContinuesHistory, NextId, Exists, tables
  <1>10. RequestInv(r)'
    BY <1>5, <1>6, <1>7, <1>8, <1>9 DEF RequestInv
  <1>11. QED
    BY <1>2, <1>10, LocalInv

LEMMA UpdateCaseInv ==
  ASSUME CaseInv, NEW r \in Requests, UpdateCase(r)
  PROVE  CaseInv'
  <1> DEFINE c == work[r].case
             w == [work[r] EXCEPT !.row = Updated(r)]
  <1>1. /\ Active(r) /\ ~Writing(r) /\ Kind(r) # "create" /\ ReadyToUpdate(r) /\ UNCHANGED seen
        /\ Acquire(r, {c}) /\ Goto(r, "held", w) /\ OwnedOrFree(r, c)
        /\ Kind(r) \in Decisions \cup {"stage"} => pc[r] # "ready"
    BY DEF UpdateCase, ReadyToUpdate, Active, Writing, CaseInv, RequestInv, Carries, Publishings,
           Decisions, Free, OwnedOrFree
  <1>2. /\ work[r] \in Work /\ c \in CaseKeys /\ cases[c] \in Row /\ RequestInv(r)
    BY <1>1, ActorParts
  <1>3. /\ Updated(r) \in Row /\ Updated(r).nextOp = cases[c].nextOp
        /\ Updated(r).year = cases[c].year /\ Updated(r).number = cases[c].number
    BY <1>1, UpdatedType
  <1>4. work[r].row = None /\ work[r].ops = {} /\ CaseRow(r) = cases[c] /\ Exists(c)
    BY <1>1, <1>2 DEF RequestInv, Carries, OnCase, CaseRow
  <1>5. /\ w \in Work /\ w.case = c /\ w.pid = work[r].pid /\ w.pend = work[r].pend
        /\ w.row = Updated(r) /\ w.ops = {}
    BY <1>2, <1>3, <1>4 DEF Work
  <1>6. Numbers({}, NextId(c), Updated(r).nextOp)
    BY <1>2, <1>3, <1>4 DEF Numbers, NextId, Row
  <1> HIDE DEF w
  <1>7. QED
    BY <1>1, <1>3, <1>4, <1>5, <1>6, CaseWriteInv

LEMMA ProjectInv ==
  ASSUME CaseInv, NEW r \in Requests, Project(r)
  PROVE  CaseInv'
  <1>1. /\ Active(r) /\ Writing(r) /\ Kind(r) \in Publishings /\ UNCHANGED <<lock, seen>>
    BY DEF Project, Active, Writing
  <1>2. /\ work[r] \in Work /\ work[r].row \in Row /\ work[r].case \in CaseKeys /\ RequestInv(r)
        /\ seen[r] \in Row /\ cmd[r] \in Command
    BY <1>1, ActorParts
  <1>3. Kind(r) = "publish" =>
          [state |-> seen[r].state,
           fields |-> [f \in cmd[r].pick |-> work[r].row.fields[f]]] \in Projection
    <2>1. HAVE Kind(r) = "publish"
    <2>2. cmd[r].pick \subseteq Fields
      BY <1>2, <2>1, CommandParts DEF Kind
    <2>3. [f \in cmd[r].pick |-> work[r].row.fields[f]] \in [cmd[r].pick -> Values \cup {None}]
      BY <1>2, <2>2 DEF Row
    <2>4. QED
      BY <1>2, <2>2, <2>3 DEF Projection, Row
  <1>4. PICK w \in Work :
          /\ Goto(r, "projected", w)
          /\ w.case = work[r].case /\ w.pid = work[r].pid /\ w.pend = work[r].pend
          /\ w.row = work[r].row /\ w.ops = work[r].ops
    <2>1. CASE Kind(r) = "publish"
      <3> DEFINE proj == [state |-> seen[r].state,
                          fields |-> [f \in cmd[r].pick |-> work[r].row.fields[f]]]
                 w == [work[r] EXCEPT !.projects = TRUE, !.shown = cmd[r].ops, !.proj = proj]
      <3>1. cmd[r].ops \subseteq Nat
        BY <1>2, <2>1, CommandParts DEF Kind
      <3>2. Goto(r, "projected", w)
        BY <2>1 DEF Project
      <3>3. proj \in Projection
        BY <1>3, <2>1
      <3> HIDE DEF proj
      <3>4. /\ w \in Work
            /\ w.case = work[r].case /\ w.pid = work[r].pid /\ w.pend = work[r].pend
            /\ w.row = work[r].row /\ w.ops = work[r].ops
        BY <1>2, <3>1, <3>3 DEF Work
      <3>5. QED
        BY <3>2, <3>4
    <2>2. CASE Kind(r) # "publish"
      <3> DEFINE w == [work[r] EXCEPT !.projects = TRUE]
      <3>1. Goto(r, "projected", w)
        BY <2>2 DEF Project
      <3>2. /\ w \in Work
            /\ w.case = work[r].case /\ w.pid = work[r].pid /\ w.pend = work[r].pend
            /\ w.row = work[r].row /\ w.ops = work[r].ops
        BY <1>2 DEF Work
      <3>3. QED
        BY <3>1, <3>2
    <2>3. QED
      BY <2>1, <2>2
  <1>5. /\ OwnedOrFree(r, work[r].case) /\ CaseRow(r) = work[r].row
        /\ \A o \in work[r].ops : o.case = work[r].case
        /\ Numbers(work[r].ops, NextId(work[r].case), work[r].row.nextOp)
        /\ Kind(r) \in Decisions \cup {"stage"} => pc[r] # "ready"
    BY <1>1, <1>2
    DEF RequestInv, Carries, HoldsLocks, ContinuesHistory, OwnedOrFree, CaseRow, Writing
  <1>6. QED
    BY <1>1, <1>2, <1>4, <1>5, CaseWriteInv

LEMMA AppendOperationInv ==
  ASSUME CaseInv, NEW r \in Requests, AppendOperation(r)
  PROVE  CaseInv'
  <1> DEFINE c == work[r].case
             o == LoggedOperation(r)
             row == [CaseRow(r) EXCEPT !.nextOp = @ + 1]
             w == [work[r] EXCEPT !.row = row, !.ops = @ \cup {o}]
  <1>1. /\ Active(r) /\ UNCHANGED seen /\ OwnedOrFree(r, c) /\ Acquire(r, {c})
        /\ Goto(r, "logged", w)
        /\ pc[r] \in {"held", "projected"} \/ (AtEntry(r) /\ Kind(r) # "create")
        /\ Kind(r) \in Decisions \cup {"stage"} => pc[r] # "ready"
    BY DEF AppendOperation, ReadyToLog, AtEntry, Active, Decisions
  <1>2. /\ TypeOK /\ work[r] \in Work /\ RequestInv(r)
        /\ Kind(r) = "create" => Writing(r)
    BY <1>1, ActorParts DEF Writing
  <1>3. c \in CaseKeys /\ CaseRow(r) \in Row
    BY <1>1, <1>2, ActorParts DEF CaseRow, RequestInv, Carries
  <1>4. Numbers(work[r].ops, NextId(c), CaseRow(r).nextOp) /\ \A q \in work[r].ops : q.case = c
    <2>1. CASE Writing(r)
      BY <1>2, <2>1 DEF RequestInv, Carries, ContinuesHistory, CaseRow
    <2>2. CASE ~Writing(r)
      <3>1. work[r].ops = {} /\ CaseRow(r) = cases[c] /\ Exists(c)
        BY <1>1, <1>2, <2>2 DEF RequestInv, Carries, OnCase, CaseRow
      <3>2. QED
        BY <1>3, <3>1 DEF Numbers, NextId, Row
    <2>3. QED
      BY <2>1, <2>2
  <1>5. o \in Operation /\ o.id = CaseRow(r).nextOp /\ o.case = c
    BY <1>1, <1>3, LoggedOperationType DEF LoggedOperation, OperationId
  <1>6. Numbers(work[r].ops \cup {o}, NextId(c), row.nextOp)
    <2>1. NextId(c) \in Nat /\ CaseRow(r).nextOp \in Nat /\ row.nextOp = CaseRow(r).nextOp + 1
      BY <1>2, <1>3 DEF NextId, TypeOK, Row, Exists
    <2>2. work[r].ops \in SUBSET Operation
      BY <1>2 DEF Work
    <2>3. QED
      BY <1>4, <1>5, <2>1, <2>2, NumbersAppend
  <1>7. /\ row \in Row /\ row.year = CaseRow(r).year /\ row.number = CaseRow(r).number
    BY <1>3 DEF Row
  <1> HIDE DEF o, row
  <1>8. /\ w \in Work /\ w.case = c /\ w.pid = work[r].pid /\ w.pend = work[r].pend
        /\ w.row = row /\ w.ops = work[r].ops \cup {o}
    BY <1>2, <1>5, <1>7 DEF Work
  <1> HIDE DEF w
  <1>9. QED
    BY <1>1, <1>2, <1>4, <1>5, <1>6, <1>7, <1>8, CaseWriteInv

\* Every kind of command has names for its audit events and its messages.
LEMMA NamesType ==
  ASSUME NEW k \in Command
  PROVE  AuditNames[k.kind] \in SUBSET EventNames /\ OutboxNames[k.kind] \in SUBSET EventNames
  <1>1. k.kind \in {"create", "append", "transition", "update", "stage", "approve", "reject",
                    "publish", "unpublish"}
    BY CommandParts
  <1>2. QED
    BY <1>1 DEF AuditNames, OutboxNames, EventNames

LEMMA WriteTrailInv ==
  ASSUME CaseInv, NEW r \in Requests, WriteTrail(r)
  PROVE  CaseInv'
  <1> DEFINE a == Events(r, AuditNames[Kind(r)])
             b == Events(r, OutboxNames[Kind(r)])
             w == [work[r] EXCEPT !.audit = a, !.outbox = b]
  <1>1. /\ Active(r) /\ Writing(r) /\ pc[r] = "logged" /\ UNCHANGED <<lock, seen>>
        /\ Goto(r, "recorded", w)
    BY DEF WriteTrail, Active, Writing
  <1>2. /\ work[r] \in Work /\ work[r].row \in Row /\ work[r].case \in CaseKeys /\ RequestInv(r)
        /\ cmd[r] \in Command
    BY <1>1, ActorParts
  <1>3. a \subseteq Event /\ b \subseteq Event
    BY <1>2, NamesType, EventsType DEF Kind
  <1> HIDE DEF a, b
  <1>4. /\ w \in Work /\ w.case = work[r].case /\ w.pid = work[r].pid /\ w.pend = work[r].pend
        /\ w.row = work[r].row /\ w.ops = work[r].ops
    BY <1>2, <1>3 DEF Work
  <1>5. /\ OwnedOrFree(r, work[r].case) /\ CaseRow(r) = work[r].row
        /\ \A o \in work[r].ops : o.case = work[r].case
        /\ Numbers(work[r].ops, NextId(work[r].case), work[r].row.nextOp)
    BY <1>1, <1>2 DEF RequestInv, Carries, HoldsLocks, ContinuesHistory, OwnedOrFree, CaseRow
  <1> HIDE DEF w
  <1>6. QED
    BY <1>1, <1>2, <1>4, <1>5, CaseWriteInv

\* A rule's action writes the case row its transaction holds, and one operation.
LEMMA RuleActionInv ==
  ASSUME CaseInv, NEW r \in Requests, RulesRun(r),
         NEW row \in Row, row.year = work[r].row.year, row.number = work[r].row.number,
         row.nextOp = work[r].row.nextOp,
         NEW type \in OperationTypes, NEW from \in States \cup {None},
         NEW to \in States \cup {None}, NEW events \in SUBSET EventNames,
         RuleAction(r, row, type, from, to, events)
  PROVE  CaseInv'
  <1> DEFINE c == work[r].case
             o == [case |-> c, id |-> OperationId(r), type |-> type, from |-> from, to |-> to,
                   by |-> r]
             next == [row EXCEPT !.nextOp = @ + 1]
             a == Events(r, {"rule.execute"})
             b == Events(r, events)
             w == [work[r] EXCEPT !.row = next, !.ops = @ \cup {o}, !.audit = @ \cup a,
                                  !.outbox = @ \cup b, !.fired = @ + 1]
  <1>1. /\ Active(r) /\ Writing(r) /\ pc[r] = "recorded" /\ UNCHANGED <<lock, seen>>
        /\ Goto(r, "recorded", w)
    BY DEF RuleAction, RulesRun, Active, Writing
  <1>2. /\ TypeOK /\ work[r] \in Work /\ work[r].row \in Row /\ c \in CaseKeys /\ RequestInv(r)
        /\ cmd[r] \in Command
    BY <1>1, ActorParts
  <1>3. a \subseteq Event /\ b \subseteq Event
    BY <1>2, EventsType DEF EventNames
  <1>4. /\ OwnedOrFree(r, c) /\ CaseRow(r) = work[r].row
        /\ \A q \in work[r].ops : q.case = c
        /\ Numbers(work[r].ops, NextId(c), work[r].row.nextOp)
    BY <1>1, <1>2 DEF RequestInv, Carries, HoldsLocks, ContinuesHistory, OwnedOrFree, CaseRow
  <1>5. o \in Operation /\ o.id = work[r].row.nextOp /\ o.case = c
    BY <1>2, <1>4 DEF Operation, OperationId, Row
  <1>6. Numbers(work[r].ops \cup {o}, NextId(c), next.nextOp)
    <2>1. /\ NextId(c) \in Nat /\ work[r].row.nextOp \in Nat
          /\ next.nextOp = work[r].row.nextOp + 1
      BY <1>2 DEF NextId, TypeOK, Row, Exists
    <2>2. work[r].ops \in SUBSET Operation
      BY <1>2 DEF Work
    <2>3. QED
      BY <1>4, <1>5, <2>1, <2>2, NumbersAppend
  <1>7. next \in Row /\ next.year = CaseRow(r).year /\ next.number = CaseRow(r).number
    BY <1>4 DEF Row
  <1> HIDE DEF o, next, a, b
  <1>8. /\ w \in Work /\ w.case = c /\ w.pid = work[r].pid /\ w.pend = work[r].pend
        /\ w.row = next /\ w.ops = work[r].ops \cup {o}
    <2>1. /\ work[r].ops \cup {o} \in SUBSET Operation
          /\ work[r].audit \cup a \in SUBSET Event
          /\ work[r].outbox \cup b \in SUBSET Event
          /\ work[r].fired + 1 \in Nat
      BY <1>2, <1>3, <1>5 DEF Work
    <2>2. QED
      BY <1>2, <1>7, <2>1 DEF Work
  <1> HIDE DEF w
  <1>9. QED
    BY <1>1, <1>2, <1>4, <1>5, <1>6, <1>7, <1>8, CaseWriteInv

LEMMA RulesInv ==
  ASSUME CaseInv, NEW r \in Requests, RuleSetState(r) \/ RuleUpdateValues(r) \/ RuleRecord(r)
  PROVE  CaseInv'
  <1>1. RulesRun(r)
    BY DEF RuleSetState, RuleUpdateValues, RuleRecord
  <1>2. work[r].row \in Row /\ Bump(work[r].row) \in Row
    BY <1>1, ActorParts, BumpType DEF RulesRun, Active, Writing
  <1>3. CASE RuleSetState(r)
    <2>1. PICK s \in States :
            RuleAction(r, [Bump(work[r].row) EXCEPT !.state = s], "state_change",
                       work[r].row.state, s, {"case.state.changed"})
      BY <1>3 DEF RuleSetState
    <2> DEFINE row == [Bump(work[r].row) EXCEPT !.state = s]
    <2>2. /\ row \in Row /\ row.year = work[r].row.year /\ row.number = work[r].row.number
          /\ row.nextOp = work[r].row.nextOp /\ work[r].row.state \in States
      BY <1>2 DEF Bump, Row
    <2> HIDE DEF row
    <2>3. QED
      <3>1. "state_change" \in OperationTypes /\ {"case.state.changed"} \in SUBSET EventNames
        BY DEF OperationTypes, EventNames
      <3>2. RuleAction(r, row, "state_change", work[r].row.state, s, {"case.state.changed"})
        BY <2>1 DEF row
      <3>3. QED
        BY <1>1, <2>2, <3>1, <3>2, RuleActionInv
  <1>4. CASE RuleUpdateValues(r)
    <2>1. PICK set \in Payload :
            RuleAction(r, IF DOMAIN set = {} THEN work[r].row
                          ELSE [Bump(work[r].row) EXCEPT !.fields = Overlay(set, @)],
                       "rule_update_values", None, None, {})
      BY <1>4 DEF RuleUpdateValues
    <2> DEFINE row == IF DOMAIN set = {} THEN work[r].row
                      ELSE [Bump(work[r].row) EXCEPT !.fields = Overlay(set, @)]
    <2>2. Overlay(set, Bump(work[r].row).fields) \in [Fields -> Values \cup {None}]
      BY <1>2, OverlayType DEF Row
    <2>3. /\ row \in Row /\ row.year = work[r].row.year /\ row.number = work[r].row.number
          /\ row.nextOp = work[r].row.nextOp
      BY <1>2, <2>2 DEF Bump, Row
    <2> HIDE DEF row
    <2>4. QED
      <3>1. "rule_update_values" \in OperationTypes /\ {} \in SUBSET EventNames
        BY DEF OperationTypes
      <3>2. RuleAction(r, row, "rule_update_values", None, None, {})
        BY <2>1 DEF row
      <3>3. QED
        BY <1>1, <2>3, <3>1, <3>2, RuleActionInv
  <1>5. CASE RuleRecord(r)
    <2>1. PICK events \in {{}, {"rule.action"}} :
            RuleAction(r, work[r].row, "rule_action", None, None, events)
      BY <1>5 DEF RuleRecord
    <2>2. events \in SUBSET EventNames
      BY DEF EventNames
    <2>3. QED
      <3>1. "rule_action" \in OperationTypes
        BY DEF OperationTypes
      <3>2. QED
        BY <1>1, <1>2, <2>1, <2>2, <3>1, RuleActionInv
  <1>6. QED
    BY <1>3, <1>4, <1>5

-----------------------------------------------------------------------------
(* The commit. *)

\* What a commit finds and what it leaves.
LEMMA CommitParts ==
  ASSUME CaseInv, NEW r \in Requests, pc[r] = "recorded", NEW told, Install(r), Finish(r, told)
  PROVE  LET c == work[r].case
             row == work[r].row
         IN
         /\ TypeOK /\ RequestInv(r) /\ Active(r) /\ Writing(r) /\ pc[r] # "ready"
         /\ c \in CaseKeys /\ row \in Row /\ row # None /\ lock[c] = r /\ cmd[r] \in Command
         /\ cases' = [cases EXCEPT ![c] = row]
         /\ operations' = operations \cup work[r].ops
         /\ \A x \in Lockable : lock'[x] = IF lock[x] = r THEN None ELSE lock[x]
         /\ Kind(r) = "create" =>
              /\ ~Exists(c) /\ cmd[r].year \in Years /\ lock[cmd[r].year] = r
              /\ row.year = cmd[r].year /\ row.number = counter[row.year] + 1
              /\ counter' = [counter EXCEPT ![row.year] = row.number]
         /\ Kind(r) # "create" =>
              /\ Exists(c) /\ counter' = counter
              /\ row.year = cases[c].year /\ row.number = cases[c].number
         /\ cmd' = cmd /\ pc'[r] = "done" /\ work'[r] = NoWork
         /\ OthersStand(r)
  <1>1. /\ Active(r) /\ Writing(r) /\ pc[r] # "ready"
    BY DEF Active, Writing
  <1>2. /\ TypeOK /\ RequestInv(r) /\ work[r].case \in CaseKeys /\ work[r].row \in Row
        /\ cmd[r] \in Command
    BY <1>1, ActorParts
  <1>3. /\ work[r].row # None /\ lock[work[r].case] = r
    BY <1>1, <1>2 DEF RequestInv, Carries, HoldsLocks
  <1>4. /\ cases' = [cases EXCEPT ![work[r].case] = work[r].row]
        /\ operations' = operations \cup work[r].ops
        /\ \A x \in Lockable : lock'[x] = IF lock[x] = r THEN None ELSE lock[x]
    BY DEF Install, Release
  <1>5. Kind(r) = "create" =>
          /\ ~Exists(work[r].case) /\ cmd[r].year \in Years /\ lock[cmd[r].year] = r
          /\ work[r].row.year = cmd[r].year /\ work[r].row.number = counter[work[r].row.year] + 1
          /\ counter' = [counter EXCEPT ![work[r].row.year] = work[r].row.number]
    BY <1>1, <1>2, CommandParts DEF RequestInv, OnCase, HoldsLocks, Install, Exists, Kind
  <1>6. Kind(r) # "create" =>
          /\ Exists(work[r].case) /\ counter' = counter
          /\ work[r].row.year = cases[work[r].case].year
          /\ work[r].row.number = cases[work[r].case].number
    BY <1>1, <1>2 DEF RequestInv, OnCase, Install, Exists
  <1>7. cmd' = cmd /\ pc'[r] = "done" /\ work'[r] = NoWork /\ OthersStand(r)
    BY <1>2 DEF Finish, TypeOK, OthersStand
  <1>8. QED
    BY <1>1, <1>2, <1>3, <1>4, <1>5, <1>6, <1>7

\* Whoever else is at work is not on the rows that are committed.
LEMMA CommitOthers ==
  ASSUME CaseInv, NEW r \in Requests, pc[r] = "recorded", NEW told, Install(r), Finish(r, told),
         NEW q \in Requests \ {r}
  PROVE  RequestInv(q)'
  <1> DEFINE c == work[r].case
             row == work[r].row
  <1>1. /\ TypeOK /\ RequestInv(r) /\ Active(r) /\ Writing(r) /\ pc[r] # "ready"
        /\ c \in CaseKeys /\ row \in Row /\ row # None /\ lock[c] = r
        /\ cases' = [cases EXCEPT ![c] = row]
        /\ \A x \in Lockable : lock'[x] = IF lock[x] = r THEN None ELSE lock[x]
    BY CommitParts
  <1>2. RequestInv(q) /\ q # r /\ q # None
    BY NoneAssumption DEF CaseInv
  <1>3. /\ pc'[q] = pc[q] /\ cmd'[q] = cmd[q] /\ seen'[q] = seen[q] /\ work'[q] = work[q]
        /\ (Active(q))' = Active(q) /\ (Writing(q))' = Writing(q) /\ Kind(q)' = Kind(q)
    BY CommitParts DEF OthersStand, Active, Writing, Kind
  <1>4. \A x \in Lockable : lock'[x] = q <=> lock[x] = q
    BY <1>1, <1>2
  <1>5. \A d \in CaseKeys : Exists(d) => Exists(d)'
    BY <1>1 DEF Exists, TypeOK
  <1>6. Writing(q) => work[q].case # c
    BY <1>1, <1>2 DEF RequestInv, HoldsLocks
  <1>7. Carries(q)'
    BY <1>2, <1>3 DEF RequestInv, Carries
  <1>8. OnPending(q)'
    <2>1. /\ pending' = IF work[r].pid = None THEN pending
                       ELSE [pending EXCEPT ![work[r].pid] = work[r].pend]
      BY DEF Install
    <2>2. work[r].pid # None =>
            /\ lock[work[r].pid] = r /\ work[r].pend # None
            /\ work[r].pend.case = c
            /\ pending[work[r].pid] # None => pending[work[r].pid].case = c
      BY <1>1 DEF RequestInv, OnPending
    <2>3. CASE Active(q) /\ Kind(q) \in Decisions
      <3>1. /\ work[q].pid \in PendingIds /\ pending[work[q].pid] # None
            /\ pending[work[q].pid].case = work[q].case
        BY <1>1, <1>2, <2>3 DEF RequestInv, OnPending, TypeOK, Work
      <3>2. pending'[work[q].pid] # None /\ pending'[work[q].pid].case = work[q].case
        BY <1>1, <2>1, <2>2, <3>1 DEF TypeOK
      <3>3. QED
        BY <1>2, <1>3, <1>4, <2>3, <3>1, <3>2 DEF RequestInv, OnPending, Lockable, Decisions
    <2>4. CASE Active(q) /\ Kind(q) = "stage" /\ pc[q] # "ready"
      <3>1. /\ work[q].pid \in PendingIds /\ pending[work[q].pid] = None
            /\ lock[work[q].pid] = q
        BY <1>1, <1>2, <2>4 DEF RequestInv, OnPending, TypeOK, Work
      <3>2. pending'[work[q].pid] = None
        BY <1>1, <1>2, <2>1, <2>2, <3>1 DEF TypeOK
      <3>3. QED
        BY <1>2, <1>3, <1>4, <2>4, <3>1, <3>2 DEF RequestInv, OnPending, Lockable, Decisions
    <2>5. CASE ~Active(q) \/ Kind(q) \notin Decisions \cup {"stage"} \/ pc[q] = "ready"
      <3>1. CASE Active(q) /\ Kind(q) \in Decisions
        BY <2>3, <3>1
      <3>2. CASE ~(Active(q) /\ Kind(q) \in Decisions)
        BY <1>2, <1>3, <2>5, <3>2 DEF RequestInv, OnPending
      <3>3. QED
        BY <3>1, <3>2
    <2>6. QED
      BY <2>3, <2>4, <2>5
  <1>9. OnCase(q)'
    <2>1. Active(q) /\ Kind(q) # "create" => work[q].case # None /\ Exists(work[q].case)'
      BY <1>1, <1>2, <1>3, <1>5 DEF RequestInv, OnCase, TypeOK, Work
    <2>2. Writing(q) =>
            /\ work[q].case \in CaseKeys /\ cases'[work[q].case] = cases[work[q].case]
      BY <1>1, <1>2, <1>6 DEF RequestInv, OnCase, TypeOK, Work, Active, Writing
    <2>3. Writing(q) /\ Kind(q) = "create" => counter'[cmd[q].year] = counter[cmd[q].year]
      <3>1. HAVE Writing(q) /\ Kind(q) = "create"
      <3>2. lock[cmd[q].year] = q /\ cmd[q].year \in Years
        BY <1>1, <1>2, <3>1, CommandParts
        DEF RequestInv, HoldsLocks, Carries, TypeOK, Kind, Writing
      <3>3. CASE Kind(r) = "create"
        BY <1>1, <1>2, <3>2, <3>3, CommitParts DEF TypeOK
      <3>4. CASE Kind(r) # "create"
        BY <3>4, CommitParts
      <3>5. QED
        BY <3>3, <3>4
    <2>4. QED
      BY <1>2, <1>3, <2>1, <2>2, <2>3 DEF RequestInv, OnCase, Exists
  <1>10. HoldsLocks(q)'
    <2>1. Writing(q) => work[q].case \in Lockable
      BY <1>1, <1>2 DEF RequestInv, OnCase, Writing, Active, TypeOK, Work, Lockable
    <2>2. Writing(q) /\ Kind(q) = "create" => cmd[q].year \in Lockable
      BY <1>1, <1>2, CommandParts DEF RequestInv, Carries, Writing, Kind, TypeOK, Lockable
    <2>3. CaseKeys \subseteq Lockable
      BY DEF Lockable
    <2>4. QED
      BY <1>2, <1>3, <1>4, <2>1, <2>2, <2>3 DEF RequestInv, HoldsLocks
  <1>11. ContinuesHistory(q)'
    <2>1. Writing(q) => NextId(work[q].case)' = NextId(work[q].case)
      <3>1. HAVE Writing(q)
      <3>2. work[q].case \in CaseKeys
        BY <1>1, <1>2, <3>1 DEF RequestInv, OnCase, TypeOK, Work, Active, Writing
      <3>3. cases'[work[q].case] = cases[work[q].case]
        BY <1>1, <1>6, <3>1, <3>2 DEF TypeOK
      <3>4. QED
        BY <1>3, <3>3 DEF NextId, Exists
    <2>2. QED
      BY <1>2, <1>3, <2>1 DEF RequestInv, ContinuesHistory
  <1>12. QED
    BY <1>7, <1>8, <1>9, <1>10, <1>11 DEF RequestInv

\* The committed history stays numbered without gaps.
LEMMA CommitHistory ==
  ASSUME CaseInv, NEW r \in Requests, pc[r] = "recorded", NEW told, Install(r), Finish(r, told)
  PROVE  HistoryNumbered'
  <1> DEFINE c == work[r].case
             row == work[r].row
  <1>1. /\ TypeOK /\ RequestInv(r) /\ Writing(r) /\ c \in CaseKeys /\ row \in Row /\ row # None
        /\ cases' = [cases EXCEPT ![c] = row] /\ operations' = operations \cup work[r].ops
    BY CommitParts
  <1>2. /\ \A o \in work[r].ops : o.case = c
        /\ Numbers(work[r].ops, NextId(c), row.nextOp)
        /\ \A d \in CaseKeys : Numbers(History(d), 1, NextId(d))
    BY <1>1 DEF RequestInv, ContinuesHistory, CaseInv, HistoryNumbered
  <1>3. SUFFICES ASSUME NEW d \in CaseKeys PROVE Numbers(History(d)', 1, NextId(d)')
    BY DEF HistoryNumbered, Numbers
  <1>4. CASE d = c
    <2>1. History(d)' = History(d) \cup work[r].ops
      BY <1>1, <1>2, <1>4 DEF History
    <2>2. NextId(d)' = row.nextOp
      BY <1>1, <1>4 DEF NextId, Exists, TypeOK
    <2>3. /\ History(d) \in SUBSET Operation /\ work[r].ops \in SUBSET Operation
          /\ NextId(d) \in Nat /\ row.nextOp \in Nat
      BY <1>1 DEF TypeOK, History, Work, NextId, Exists, Row
    <2>4. QED
      BY <1>2, <1>4, <2>1, <2>2, <2>3, NumbersConcat
  <1>5. CASE d # c
    <2>1. History(d)' = History(d) /\ NextId(d)' = NextId(d)
      BY <1>1, <1>2, <1>5 DEF History, NextId, Exists, TypeOK
    <2>2. QED
      BY <1>2, <2>1
  <1>6. QED
    BY <1>4, <1>5

\* The diary numbers stay gapless and collision-free.
LEMMA CommitCounters ==
  ASSUME CaseInv, NEW r \in Requests, pc[r] = "recorded", NEW told, Install(r), Finish(r, told)
  PROVE  CountersMatch'
  <1> DEFINE c == work[r].case
             row == work[r].row
  <1>1. /\ TypeOK /\ c \in CaseKeys /\ row \in Row /\ row # None
        /\ cases' = [cases EXCEPT ![c] = row] /\ row.number \in Nat /\ row.year \in Years
        /\ counter \in [Years -> Nat]
        /\ \A d \in CaseKeys : Exists(d) => cases[d].year \in Years /\ cases[d].number \in Nat
    BY CommitParts DEF Row, TypeOK, Exists
  <1>2. /\ \A d \in CaseKeys : Exists(d) =>
             1 <= cases[d].number /\ cases[d].number <= counter[cases[d].year]
        /\ \A y \in Years : \A n \in 1 .. counter[y] :
             \E d \in CaseKeys : Exists(d) /\ cases[d].year = y /\ cases[d].number = n
        /\ \A d, e \in CaseKeys :
             Exists(d) /\ Exists(e) /\ cases[d].year = cases[e].year
               /\ cases[d].number = cases[e].number => d = e
    BY DEF CaseInv, CountersMatch
  <1>3. /\ cases'[c] = row
        /\ \A d \in CaseKeys \ {c} : cases'[d] = cases[d]
    BY <1>1 DEF TypeOK
  <1>4. CASE Kind(r) = "create"
    <2>1. /\ ~Exists(c) /\ row.number = counter[row.year] + 1
          /\ counter' = [counter EXCEPT ![row.year] = row.number]
      BY <1>4, CommitParts
    <2>2. \A d \in CaseKeys : Exists(d)' =>
             1 <= cases'[d].number /\ cases'[d].number <= counter'[cases'[d].year]
      BY <1>1, <1>2, <1>3, <2>1 DEF Exists
    <2>3. \A y \in Years : \A n \in 1 .. counter'[y] :
             \E d \in CaseKeys : Exists(d)' /\ cases'[d].year = y /\ cases'[d].number = n
      <3>1. SUFFICES ASSUME NEW y \in Years, NEW n \in 1 .. counter'[y]
                     PROVE \E d \in CaseKeys :
                             Exists(d)' /\ cases'[d].year = y /\ cases'[d].number = n
        OBVIOUS
      <3>2. CASE y = row.year /\ n = row.number
        BY <1>1, <1>3, <3>2 DEF Exists
      <3>3. CASE ~(y = row.year /\ n = row.number)
        <4>1. n \in 1 .. counter[y]
          BY <1>1, <2>1, <3>1, <3>3
        <4>2. PICK d \in CaseKeys : Exists(d) /\ cases[d].year = y /\ cases[d].number = n
          BY <1>2, <4>1
        <4>3. QED
          BY <1>3, <2>1, <4>2 DEF Exists
      <3>4. QED
        BY <3>2, <3>3
    <2>4. \A d, e \in CaseKeys :
             Exists(d)' /\ Exists(e)' /\ cases'[d].year = cases'[e].year
               /\ cases'[d].number = cases'[e].number => d = e
      <3>1. \A d \in CaseKeys \ {c} : Exists(d)' =>
               ~(cases'[d].year = row.year /\ cases'[d].number = row.number)
        BY <1>1, <1>2, <1>3, <2>1 DEF Exists
      <3>2. QED
        BY <1>2, <1>3, <3>1 DEF Exists
    <2>5. QED
      BY <2>2, <2>3, <2>4 DEF CountersMatch
  <1>5. CASE Kind(r) # "create"
    <2>1. /\ Exists(c) /\ counter' = counter
          /\ row.year = cases[c].year /\ row.number = cases[c].number
      BY <1>5, CommitParts
    <2>2. \A d \in CaseKeys :
            /\ Exists(d)' = Exists(d)
            /\ Exists(d) => cases'[d].year = cases[d].year /\ cases'[d].number = cases[d].number
      BY <1>1, <1>3, <2>1 DEF Exists
    <2>3. QED
      BY <1>1, <1>2, <2>1, <2>2 DEF CountersMatch
  <1>6. QED
    BY <1>4, <1>5

LEMMA CommitInv ==
  ASSUME CaseInv, NEW r \in Requests, Commit(r) \/ CommitUnacknowledged(r)
  PROVE  CaseInv'
  <1>1. PICK told \in Answers : pc[r] = "recorded" /\ Install(r) /\ Finish(r, told)
    BY DEF Commit, CommitUnacknowledged, Answers
  <1>2. /\ TypeOK /\ RequestInv(r) /\ Active(r) /\ Writing(r) /\ pc[r] # "ready"
        /\ cases' = [cases EXCEPT ![work[r].case] = work[r].row] /\ work[r].row # None
        /\ \A x \in Lockable : lock'[x] = IF lock[x] = r THEN None ELSE lock[x]
        /\ cmd' = cmd /\ pc'[r] = "done" /\ work'[r] = NoWork
    BY <1>1, CommitParts
  <1>3. TypeOK'
    BY <1>1, CommitType
  <1>4. \A q \in Requests \ {r} : RequestInv(q)'
    BY <1>1, CommitOthers
  <1>5. RequestInv(r)'
    <2>1. ~(Active(r))' /\ ~(Writing(r))' /\ (cmd[r])' # None
      BY <1>2 DEF Active, Writing, RequestInv, Carries
    <2>2. Carries(r)' /\ OnPending(r)' /\ OnCase(r)' /\ ContinuesHistory(r)'
      BY <1>2, <2>1 DEF Carries, OnPending, OnCase, ContinuesHistory, NoWork
    <2>3. HoldsLocks(r)'
      BY <1>2, <2>1, NoneAssumption DEF HoldsLocks, Lockable
    <2>4. QED
      BY <2>2, <2>3 DEF RequestInv
  <1>6. SubmissionsHaveCases'
    <2>1. \A d \in CaseKeys : Exists(d) => Exists(d)'
      BY <1>2 DEF Exists, TypeOK
    <2>2. /\ pending' = IF work[r].pid = None THEN pending
                       ELSE [pending EXCEPT ![work[r].pid] = work[r].pend]
      BY <1>1 DEF Install
    <2>3. work[r].pid # None =>
            /\ work[r].pend.case = work[r].case /\ Exists(work[r].case)
            /\ work[r].case \in CaseKeys
      BY <1>2 DEF RequestInv, OnPending, OnCase, TypeOK, Work, Decisions
    <2>4. \A p \in PendingIds : pending[p] # None => pending[p].case \in CaseKeys
      BY <1>2 DEF TypeOK, PendingRow
    <2>5. QED
      BY <1>2, <2>1, <2>2, <2>3, <2>4 DEF CaseInv, SubmissionsHaveCases, TypeOK
  <1>7. QED
    BY <1>1, <1>3, <1>4, <1>5, <1>6, CommitHistory, CommitCounters DEF CaseInv

-----------------------------------------------------------------------------
(* Statements before the commit, for the history below and LedgerProofs. *)

\* Before its commit a request changes nothing that belongs to another, nor a table.
Apart(r) ==
  /\ OthersStand(r) /\ UNCHANGED tables
  /\ \A q \in Requests \ {r} : answer'[q] = answer[q]

\* A statement stands apart from the other requests.
LEMMA GotoApart ==
  ASSUME TypeOK, NEW r \in Requests, NEW label, NEW w, Goto(r, label, w), UNCHANGED seen
  PROVE  /\ Apart(r) /\ UNCHANGED <<cmd, answer, tables>> /\ Kind(r)' = Kind(r)
         /\ pc'[r] = label /\ work'[r] = w
  BY DEF Goto, Apart, OthersStand, TypeOK, Kind

\* So does the arrival of a request.
LEMMA AcceptApart ==
  ASSUME TypeOK, NEW r \in Requests, NEW k, NEW row, NEW w, Accept(r, k, row, w)
  PROVE  /\ Apart(r) /\ UNCHANGED answer
         /\ pc'[r] = "ready" /\ work'[r] = w /\ cmd'[r] = k
  BY DEF Accept, Apart, OthersStand, TypeOK

\* So does a refusal, and a transaction that is rolled back.
LEMMA FinishApart ==
  ASSUME TypeOK, NEW r \in Requests, NEW told, Finish(r, told), UNCHANGED tables
  PROVE  /\ Apart(r) /\ pc'[r] = "done" /\ work'[r] = NoWork /\ answer'[r] = told
  BY DEF Finish, Apart, OthersStand, TypeOK

\* So does a SELECT of the version.
LEMMA ReadVersionApart ==
  ASSUME TypeOK, NEW r \in Requests, ReadVersion(r)
  PROVE  /\ Apart(r) /\ UNCHANGED <<cmd, answer>> /\ Kind(r)' = Kind(r)
         /\ pc'[r] = "checked" /\ work'[r] = work[r]
  BY DEF ReadVersion, Goto, Apart, OthersStand, TypeOK, Kind

\* Nobody but a commit changes the tables.
LEMMA StatementsStand ==
  ASSUME TypeOK, NEW r \in Requests,
         \/ ReceiveCreate(r) \/ ReceiveOnCase(r) \/ ReceiveDecision(r) \/ Refuse(r)
         \/ AllocateNumber(r) \/ InsertPending(r) \/ DecidePending(r) \/ DecisionConflict(r)
         \/ ReadVersion(r) \/ RejectTransition(r) \/ UpdateCase(r) \/ UpdateConflict(r)
         \/ Project(r) \/ RejectSelection(r) \/ AppendOperation(r) \/ WriteTrail(r)
         \/ RuleSetState(r) \/ RuleUpdateValues(r) \/ RuleRecord(r) \/ Fail(r)
  PROVE  UNCHANGED tables
  <1>1. ASSUME ReceiveCreate(r) \/ ReceiveOnCase(r) \/ ReceiveDecision(r) \/ Refuse(r)
        PROVE  UNCHANGED tables
    BY <1>1 DEF ReceiveCreate, ReceiveOnCase, ReceiveDecision, Accept, Refuse
  <1>2. ASSUME \/ DecisionConflict(r) \/ RejectTransition(r) \/ UpdateConflict(r)
               \/ RejectSelection(r) \/ Fail(r)
        PROVE  UNCHANGED tables
    BY <1>2 DEF DecisionConflict, RejectTransition, UpdateConflict, RejectSelection, Fail,
                Abandon, Undo, Discard
  <1>3. ASSUME NEW label, NEW w, Goto(r, label, w)
        PROVE  UNCHANGED tables
    BY <1>3 DEF Goto
  <1>4. ASSUME \/ AllocateNumber(r) \/ InsertPending(r) \/ DecidePending(r) \/ ReadVersion(r)
               \/ UpdateCase(r) \/ Project(r) \/ AppendOperation(r) \/ WriteTrail(r)
        PROVE  \E label, w : Goto(r, label, w)
    BY <1>4 DEF AllocateNumber, InsertPending, DecidePending, ReadVersion, UpdateCase, Project,
                AppendOperation, WriteTrail
  <1>5. ASSUME RuleSetState(r) \/ RuleUpdateValues(r) \/ RuleRecord(r)
        PROVE  \E label, w : Goto(r, label, w)
    BY <1>5 DEF RuleSetState, RuleUpdateValues, RuleRecord, RuleAction
  <1> QED BY <1>1, <1>2, <1>3, <1>4, <1>5

-----------------------------------------------------------------------------
(* The theorems. *)

\* A fresh registry, with no request under way.
LEMMA InitInv ==
  ASSUME Init
  PROVE  CaseInv
  <1>1. TypeOK
    BY NoWorkType DEF Init, InitTables, TypeOK
  <1>2. \A r \in Requests : RequestInv(r)
    BY NoneAssumption
    DEF Init, InitTables, RequestInv, Carries, OnPending, OnCase, HoldsLocks, ContinuesHistory,
        Active, Writing, NoWork, Lockable
  <1>3. HistoryNumbered
    BY DEF Init, InitTables, HistoryNumbered, History, NextId, Exists, Numbers
  <1>4. CountersMatch /\ SubmissionsHaveCases
    BY DEF Init, InitTables, CountersMatch, SubmissionsHaveCases, Exists
  <1>5. QED
    BY <1>1, <1>2, <1>3, <1>4 DEF CaseInv

\* Every step, of any request, preserves the invariant.
LEMMA NextInv ==
  ASSUME CaseInv, [Next]_vars
  PROVE  CaseInv'
  <1>1. CASE UNCHANGED vars
    <2>1. UNCHANGED tables /\ UNCHANGED lock /\ UNCHANGED request
      BY <1>1 DEF vars
    <2>2. TypeOK'
      BY <2>1 DEF CaseInv, TypeOK, tables, request
    <2>3. ASSUME NEW r \in Requests
          PROVE  RequestInv(r)'
      <3>1. /\ RequestInv(r) /\ (Active(r))' = Active(r) /\ (Writing(r))' = Writing(r)
            /\ Kind(r)' = Kind(r)
        BY <2>1 DEF CaseInv, Active, Writing, Kind, request
      <3>2. Carries(r)' /\ OnPending(r)'
        BY <2>1, <3>1 DEF RequestInv, Carries, OnPending, tables, request
      <3>3. OnCase(r)' /\ HoldsLocks(r)'
        BY <2>1, <3>1 DEF RequestInv, OnCase, HoldsLocks, Exists, tables, request
      <3>4. ContinuesHistory(r)'
        BY <2>1, <3>1 DEF RequestInv, ContinuesHistory, NextId, Exists, tables, request
      <3>5. QED
        BY <3>2, <3>3, <3>4 DEF RequestInv
    <2>4. QED
      BY <2>1, <2>2, <2>3, TablesFrame DEF CaseInv
  <1>2. CASE Terminated
    BY <1>1, <1>2 DEF Terminated
  <1>3. ASSUME NEW r \in Requests, ReceiveCreate(r) \/ ReceiveOnCase(r) \/ ReceiveDecision(r)
        PROVE  CaseInv'
    BY <1>3, ReceiveInv
  <1>4. ASSUME NEW r \in Requests, Refuse(r)
        PROVE  CaseInv'
    BY <1>4, RefuseInv
  <1>5. ASSUME NEW r \in Requests,
               DecisionConflict(r) \/ RejectTransition(r) \/ UpdateConflict(r)
                 \/ RejectSelection(r) \/ Fail(r)
        PROVE  CaseInv'
    <2>1. PICK told \in Answers : Active(r) /\ Abandon(r, told)
      BY <1>5
      DEF DecisionConflict, RejectTransition, UpdateConflict, RejectSelection, Fail,
          ReadyToUpdate, Active, Answers
    <2>2. QED
      BY <2>1, AbandonInv
  <1>6. ASSUME NEW r \in Requests, AllocateNumber(r) PROVE CaseInv'
    BY <1>6, AllocateNumberInv
  <1>7. ASSUME NEW r \in Requests, InsertPending(r) PROVE CaseInv'
    BY <1>7, InsertPendingInv
  <1>8. ASSUME NEW r \in Requests, DecidePending(r) PROVE CaseInv'
    BY <1>8, DecidePendingInv
  <1>9. ASSUME NEW r \in Requests, ReadVersion(r) PROVE CaseInv'
    BY <1>9, ReadVersionInv
  <1>10. ASSUME NEW r \in Requests, UpdateCase(r) PROVE CaseInv'
    BY <1>10, UpdateCaseInv
  <1>11. ASSUME NEW r \in Requests, Project(r) PROVE CaseInv'
    BY <1>11, ProjectInv
  <1>12. ASSUME NEW r \in Requests, AppendOperation(r) PROVE CaseInv'
    BY <1>12, AppendOperationInv
  <1>13. ASSUME NEW r \in Requests, WriteTrail(r) PROVE CaseInv'
    BY <1>13, WriteTrailInv
  <1>14. ASSUME NEW r \in Requests, RuleSetState(r) \/ RuleUpdateValues(r) \/ RuleRecord(r)
         PROVE  CaseInv'
    BY <1>14, RulesInv
  <1>15. ASSUME NEW r \in Requests, Commit(r) \/ CommitUnacknowledged(r)
         PROVE  CaseInv'
    BY <1>15, CommitInv
  <1>16. QED
    BY <1>1, <1>2, <1>3, <1>4, <1>5, <1>6, <1>7, <1>8, <1>9, <1>10, <1>11, <1>12, <1>13, <1>14,
       <1>15
    DEF Next, Advance

\* The inductive invariant holds throughout: at each point of its transaction a
\* request holds the locks of what it has written, and its uncommitted rows
\* continue the committed ones.
THEOREM Invariance == Spec => []CaseInv
  <1>1. Init => CaseInv
    BY InitInv
  <1>2. CaseInv /\ [Next]_vars => CaseInv'
    BY NextInv
  <1>3. QED
    BY <1>1, <1>2, PTL DEF Spec

\* Every variable keeps its type, however many requests are interleaved.
THEOREM TypeCorrect == Spec => []TypeOK
  <1>1. CaseInv => TypeOK
    BY DEF CaseInv
  <1>2. QED
    BY <1>1, Invariance, PTL

\* appendOperation: whatever the interleaving of the statements of any number of
\* requests, and whichever of them fail, the operations of a case are numbered
\* 1, 2, 3, ... and the case row's counter is the next number.
THEOREM HistoryGapless == Spec => []OperationIdsGapless
  <1>1. CaseInv => OperationIdsGapless
    <2>1. SUFFICES ASSUME CaseInv PROVE OperationIdsGapless
      OBVIOUS
    <2>2. \A o \in operations : o.case \in CaseKeys /\ o.id \in Nat
      BY <2>1 DEF CaseInv, TypeOK, Operation
    <2>3. ASSUME NEW c \in CaseKeys, Exists(c)
          PROVE  {o.id : o \in History(c)} = 1 .. (cases[c].nextOp - 1)
      <3>1. Numbers(History(c), 1, cases[c].nextOp) /\ cases[c].nextOp \in Nat
        BY <2>1, <2>3 DEF CaseInv, HistoryNumbered, NextId, TypeOK, Row, Exists
      <3>2. QED
        BY <2>2, <3>1 DEF Numbers, History
    <2>4. ASSUME NEW o1 \in operations, NEW o2 \in operations,
                 o1.case = o2.case, o1.id = o2.id
          PROVE  o1 = o2
      <3>1. Numbers(History(o1.case), 1, NextId(o1.case))
        BY <2>1, <2>2 DEF CaseInv, HistoryNumbered
      <3>2. o1 \in History(o1.case) /\ o2 \in History(o1.case)
        BY <2>4 DEF History
      <3>3. QED
        BY <2>4, <3>1, <3>2 DEF Numbers
    <2>5. QED
      BY <2>3, <2>4 DEF OperationIdsGapless
  <1>2. QED
    BY <1>1, Invariance, PTL

\* allocateDiaryNumber: diary numbers are unique, and gapless within a year, with
\* any number of concurrent creations, of which any number are rolled back.
THEOREM DiaryGapless == Spec => []DiaryNumbersGapless
  <1>1. CaseInv => DiaryNumbersGapless
    <2>1. SUFFICES ASSUME CaseInv PROVE DiaryNumbersGapless
      OBVIOUS
    <2>2. /\ counter \in [Years -> Nat]
          /\ \A c \in CaseKeys : Exists(c) => cases[c].year \in Years /\ cases[c].number \in Nat
      BY <2>1 DEF CaseInv, TypeOK, Row, Exists
    <2>3. ASSUME NEW y \in Years
          PROVE  {cases[c].number : c \in {d \in CaseKeys : Exists(d) /\ cases[d].year = y}}
                   = 1 .. counter[y]
      BY <2>1, <2>2 DEF CaseInv, CountersMatch
    <2>4. ASSUME NEW c \in CaseKeys, NEW d \in CaseKeys, Exists(c), Exists(d), c # d
          PROVE  <<cases[c].year, cases[c].number>> # <<cases[d].year, cases[d].number>>
      BY <2>1, <2>4 DEF CaseInv, CountersMatch
    <2>5. QED
      BY <2>3, <2>4 DEF DiaryNumbersGapless
  <1>2. QED
    BY <1>1, Invariance, PTL

-----------------------------------------------------------------------------
(***************************************************************************)
(* The history of a case explains the state the case is in.                *)
(***************************************************************************)

-----------------------------------------------------------------------------
(* Chains of operations. *)

\* An operation without a state leaves a chain as it is.
LEMMA ChainKeeps ==
  ASSUME NEW S, NEW o, o.to = None
  PROVE  Bearing(S \cup {o}) = Bearing(S)
  BY DEF Bearing

\* A later operation that starts where a chain ends makes it longer.
LEMMA ChainGrows ==
  ASSUME NEW B \in SUBSET Operation, NEW o \in Operation, \A q \in B : q.id < o.id,
         Chained(B), LeadsTo(B, o.from), o.from # None, Allowed(o.from, o.to)
  PROVE  Chained(B \cup {o}) /\ LeadsTo(B \cup {o}, o.to)
  <1>1. o.id \in Nat /\ \A q \in B : q.id \in Nat
    BY DEF Operation
  <1>2. Before(o, B \cup {o}) = B
    BY <1>1 DEF Before
  <1>3. \A q \in B : Before(q, B \cup {o}) = Before(q, B)
    BY <1>1 DEF Before
  <1>4. Chained(B \cup {o})
    BY <1>2, <1>3 DEF Chained
  <1>5. LeadsTo(B \cup {o}, o.to)
    BY <1>1 DEF LeadsTo, IsLatest
  <1> QED BY <1>4, <1>5

\* The operation that creates a case is a chain.
LEMMA ChainStarts ==
  ASSUME NEW o \in Operation, o.id = 1, o.from = None, o.to = InitialState
  PROVE  Chained({o}) /\ LeadsTo({o}, InitialState)
  BY DEF Chained, LeadsTo, IsLatest, Operation

-----------------------------------------------------------------------------
(* Statements before the commit. *)

Told(r) == ExplainsItsRow(r) /\ AboutToExplain(r)

LEMMA ApartSuffices ==
  ASSUME HistoryInv, NEW r \in Requests, Apart(r), CaseInv', Told(r)'
  PROVE  HistoryInv'
  <1>1. /\ cases' = cases /\ operations' = operations
        /\ HistoryExplainsState /\ \A q \in Requests : Told(q)
    BY DEF Apart, tables, HistoryInv, Told
  <1>2. \A c : History(c)' = History(c)
    BY <1>1 DEF History
  <1>3. HistoryExplainsState'
    BY <1>1, <1>2 DEF HistoryExplainsState, Exists, LeadsTo, IsLatest, Chained, Before, Bearing
  <1>4. ASSUME NEW q \in Requests \ {r}
        PROVE  Told(q)'
    <2>1. /\ pc'[q] = pc[q] /\ work'[q] = work[q] /\ seen'[q] = seen[q] /\ cmd'[q] = cmd[q]
          /\ Kind(q)' = Kind(q)
      BY <1>4 DEF Apart, OthersStand, Kind
    <2>2. Known(q)' = Known(q)
      BY <1>2, <2>1 DEF Known, Bearing
    <2>3. ExplainsItsRow(q)'
      BY <1>1, <2>1, <2>2 DEF Told, ExplainsItsRow, LeadsTo, IsLatest, Chained, Before
    <2>4. AboutToExplain(q)'
      BY <1>1, <2>1 DEF Told, AboutToExplain, Allowed
    <2> QED BY <2>3, <2>4 DEF Told
  <1> QED BY <1>3, <1>4 DEF HistoryInv, Told

\* A request that has written nothing, or is answered, has nothing to explain.
LEMMA NothingToTell ==
  ASSUME HistoryInv, NEW r \in Requests, Apart(r), CaseInv',
         pc'[r] \notin {"held", "projected", "logged", "recorded"}
  PROVE  HistoryInv'
  <1>1. Told(r)'
    BY DEF Told, ExplainsItsRow, AboutToExplain
  <1> QED BY <1>1, ApartSuffices

LEMMA QuietTold ==
  ASSUME HistoryInv, CaseInv', NEW r \in Requests,
         \/ ReceiveCreate(r) \/ ReceiveOnCase(r) \/ ReceiveDecision(r) \/ Refuse(r)
         \/ DecisionConflict(r) \/ RejectTransition(r) \/ UpdateConflict(r) \/ RejectSelection(r)
         \/ Fail(r) \/ InsertPending(r) \/ DecidePending(r) \/ ReadVersion(r)
  PROVE  HistoryInv'
  <1>1. TypeOK
    BY DEF HistoryInv, CaseInv
  <1>2. CASE ReceiveCreate(r) \/ ReceiveOnCase(r) \/ ReceiveDecision(r)
    <2>1. \E k, row, w : Accept(r, k, row, w)
      BY <1>2 DEF ReceiveCreate, ReceiveOnCase, ReceiveDecision
    <2>2. Apart(r) /\ pc'[r] = "ready"
      BY <1>1, <2>1, AcceptApart
    <2> QED BY <2>2, NothingToTell
  <1>3. CASE \/ Refuse(r) \/ DecisionConflict(r) \/ RejectTransition(r) \/ UpdateConflict(r)
             \/ RejectSelection(r) \/ Fail(r)
    <2>1. UNCHANGED tables /\ \E told : Finish(r, told)
      BY <1>3
      DEF Refuse, DecisionConflict, RejectTransition, UpdateConflict, RejectSelection, Fail,
          Abandon, Undo, Discard
    <2>2. Apart(r) /\ pc'[r] = "done"
      BY <1>1, <2>1, FinishApart
    <2> QED BY <2>2, NothingToTell
  <1>4. CASE InsertPending(r) \/ DecidePending(r)
    <2>1. UNCHANGED seen /\ \E w : Goto(r, "open", w)
      BY <1>4 DEF InsertPending, DecidePending
    <2>2. Apart(r) /\ pc'[r] = "open"
      BY <1>1, <2>1, GotoApart
    <2> QED BY <2>2, NothingToTell
  <1>5. CASE ReadVersion(r)
    <2>1. Apart(r) /\ pc'[r] = "checked"
      BY <1>1, <1>5, ReadVersionApart
    <2> QED BY <2>1, NothingToTell
  <1> QED BY <1>2, <1>3, <1>4, <1>5

-----------------------------------------------------------------------------
(* The statements that write the case row. *)

LEMMA AllocateNumberTold ==
  ASSUME HistoryInv, CaseInv', NEW r \in Requests, AllocateNumber(r)
  PROVE  HistoryInv'
  <1> DEFINE row == NewRow(cmd[r], counter[cmd[r].year] + 1)
  <1>1. PICK c \in CaseKeys : Goto(r, "held", [work[r] EXCEPT !.case = c, !.row = row])
    BY DEF AllocateNumber
  <1>2. Active(r) /\ ~Writing(r) /\ Kind(r) = "create" /\ UNCHANGED seen
    BY DEF AllocateNumber, Active, Writing
  <1>3. TypeOK /\ work[r] \in Work /\ work[r].ops = {}
    BY <1>2, ActorParts DEF HistoryInv, RequestInv, Carries
  <1>4. row.state = InitialState
    BY DEF NewRow
  <1> HIDE DEF row
  <1> DEFINE w == [work[r] EXCEPT !.case = c, !.row = row]
  <1>5. w.ops = {} /\ w.row = row
    BY <1>3 DEF Work
  <1> HIDE DEF w
  <1>6. /\ Apart(r) /\ Kind(r)' = "create" /\ pc'[r] = "held"
        /\ work'[r].ops = {} /\ work'[r].row.state = InitialState
    <2>1. Goto(r, "held", w)
      BY <1>1 DEF w
    <2>2. Apart(r) /\ Kind(r)' = Kind(r) /\ pc'[r] = "held" /\ work'[r] = w
      BY <1>2, <1>3, <2>1, GotoApart
    <2> QED BY <1>2, <1>4, <1>5, <2>2
  <1>7. Told(r)'
    BY <1>6 DEF Told, ExplainsItsRow, AboutToExplain
  <1> QED BY <1>6, <1>7, ApartSuffices

LEMMA UpdateCaseTold ==
  ASSUME HistoryInv, CaseInv', NEW r \in Requests, UpdateCase(r)
  PROVE  HistoryInv'
  <1>1. /\ Active(r) /\ ~Writing(r) /\ ReadyToUpdate(r) /\ CasHolds(r) /\ UNCHANGED seen
        /\ Goto(r, "held", [work[r] EXCEPT !.row = Updated(r)])
    BY DEF UpdateCase, ReadyToUpdate, Active, Writing
  <1>2. TypeOK /\ CaseInv /\ RequestInv(r) /\ work[r] \in Work /\ work[r].ops = {}
    BY <1>1, ActorParts DEF HistoryInv, RequestInv, Carries
  <1>3. Kind(r) # "create"
    BY <1>1, <1>2 DEF ReadyToUpdate, RequestInv, Carries, Publishings
  <1>4. cases[work[r].case] \in Row /\ cmd[r] \in Command
    BY <1>1, <1>2, <1>3, ActorParts
  <1>5. /\ Kind(r) = "transition" => Updated(r).state = cmd[r].to
        /\ Kind(r) # "transition" => Updated(r).state = cases[work[r].case].state
    <2>1. Bump(cases[work[r].case]) \in Row /\ Bump(cases[work[r].case]).state = cases[work[r].case].state
      BY <1>4, BumpType DEF Bump, Row
    <2> QED BY <2>1 DEF Updated, Row
  <1>6. Kind(r) = "transition" =>
          seen[r].state = cases[work[r].case].state /\ Allowed(cases[work[r].case].state, cmd[r].to)
    BY <1>1 DEF CasHolds, ReadyToUpdate, Publishings
  <1>7. /\ Apart(r) /\ UNCHANGED <<cmd, tables>> /\ Kind(r)' = Kind(r) /\ pc'[r] = "held"
        /\ work'[r].ops = {} /\ work'[r].row = Updated(r) /\ work'[r].case = work[r].case
    BY <1>1, <1>2, GotoApart DEF Work
  <1>8. cases' = cases
    BY <1>7 DEF tables
  <1>9. Told(r)'
    BY <1>1, <1>3, <1>5, <1>6, <1>7, <1>8 DEF Told, ExplainsItsRow, AboutToExplain, Allowed
  <1> QED BY <1>7, <1>9, ApartSuffices

\* Neither the projection nor the trail touches the row or the operations.
LEMMA SameRowTold ==
  ASSUME HistoryInv, CaseInv', NEW r \in Requests, Project(r) \/ WriteTrail(r)
  PROVE  HistoryInv'
  <1>1. /\ Active(r) /\ UNCHANGED seen
        /\ \/ pc[r] = "held" /\ \E w : Goto(r, "projected", w)
           \/ pc[r] = "logged" /\ \E w : Goto(r, "recorded", w)
    BY DEF Project, WriteTrail, Active
  <1>2. TypeOK /\ work[r] \in Work /\ Told(r)
    BY <1>1, ActorParts DEF HistoryInv, Told
  <1>3. /\ Apart(r) /\ UNCHANGED <<cmd, tables>> /\ Kind(r)' = Kind(r)
        /\ \/ pc[r] = "held" /\ pc'[r] = "projected"
           \/ pc[r] = "logged" /\ pc'[r] = "recorded"
    BY <1>1, <1>2, GotoApart
  <1>4. /\ work'[r].row = work[r].row /\ work'[r].ops = work[r].ops /\ work'[r].case = work[r].case
    <2>1. CASE WriteTrail(r)
      <3>1. work'[r] = [work[r] EXCEPT !.audit = Events(r, AuditNames[Kind(r)]),
                                       !.outbox = Events(r, OutboxNames[Kind(r)])]
        BY <1>2, <2>1 DEF WriteTrail, Goto, TypeOK
      <3> QED BY <1>2, <3>1 DEF Work
    <2>2. CASE Project(r) /\ Kind(r) = "publish"
      <3>1. work'[r] = [work[r] EXCEPT !.projects = TRUE, !.shown = cmd[r].ops,
                          !.proj = [state |-> seen[r].state,
                                    fields |-> [f \in cmd[r].pick |-> work[r].row.fields[f]]]]
        BY <1>2, <2>2 DEF Project, Goto, TypeOK
      <3> QED BY <1>2, <3>1 DEF Work
    <2>3. CASE Project(r) /\ Kind(r) # "publish"
      <3>1. work'[r] = [work[r] EXCEPT !.projects = TRUE]
        BY <1>2, <2>3 DEF Project, Goto, TypeOK
      <3> QED BY <1>2, <3>1 DEF Work
    <2> QED BY <2>1, <2>2, <2>3
  <1>5. cases' = cases /\ operations' = operations
    BY <1>3 DEF tables
  <1>6. Known(r)' = Known(r)
    BY <1>4, <1>5 DEF Known, Bearing, History
  <1>7. ExplainsItsRow(r)'
    BY <1>2, <1>3, <1>4, <1>6 DEF Told, ExplainsItsRow, LeadsTo, IsLatest, Chained, Before
  <1>8. AboutToExplain(r)'
    BY <1>1, <1>2, <1>3, <1>4, <1>5 DEF Told, AboutToExplain, Allowed
  <1> QED BY <1>3, <1>7, <1>8, ApartSuffices DEF Told

-----------------------------------------------------------------------------
(* The statements that write operations. *)

\* The operations of the case, committed or the request's own, and where their
\* numbering goes on.
LEMMA KnownNumbered ==
  ASSUME HistoryInv, NEW r \in Requests, Active(r), work[r].case \in CaseKeys, CaseRow(r) \in Row
  PROVE  /\ Known(r) \in SUBSET Operation
         /\ \A o \in Known(r) : o.id < CaseRow(r).nextOp
         /\ ~Exists(work[r].case) => History(work[r].case) = {}
  <1> DEFINE c == work[r].case
  <1>1. /\ TypeOK /\ RequestInv(r) /\ work[r] \in Work
        /\ Numbers(History(c), 1, NextId(c))
    BY ActorParts DEF HistoryInv, CaseInv, HistoryNumbered
  <1>2. /\ Known(r) \in SUBSET Operation /\ NextId(c) \in Nat /\ CaseRow(r).nextOp \in Nat
        /\ \A o \in History(c) \cup work[r].ops : o.id \in Nat
    BY <1>1 DEF Known, Bearing, History, Work, TypeOK, NextId, Exists, Row, Operation
  <1>3. NextId(c) <= CaseRow(r).nextOp /\ \A o \in work[r].ops : o.id < CaseRow(r).nextOp
    <2>1. CASE Writing(r)
      BY <1>1, <2>1 DEF RequestInv, Carries, ContinuesHistory, Numbers, CaseRow
    <2>2. CASE ~Writing(r)
      <3>1. work[r].ops = {} /\ CaseRow(r) = cases[c] /\ cases[c] # None
        BY <1>1, <2>2, NoRowAssumption DEF RequestInv, Carries, CaseRow
      <3> QED BY <1>2, <3>1 DEF NextId, Exists
    <2> QED BY <2>1, <2>2
  <1>4. \A o \in Known(r) : o.id < CaseRow(r).nextOp
    BY <1>1, <1>2, <1>3 DEF Known, Bearing, Numbers
  <1>5. ~Exists(c) => History(c) = {}
    BY <1>1, <1>2 DEF NextId, Numbers
  <1> QED BY <1>2, <1>4, <1>5

\* What a request knows before its own operation, and what that operation says.
LEMMA BeforeLogging ==
  ASSUME HistoryInv, NEW r \in Requests, ReadyToLog(r)
  PROVE  LET c == work[r].case
             o == LoggedOperation(r)
         IN
         /\ Active(r) /\ c \in CaseKeys /\ CaseRow(r) \in Row /\ work[r].ops = {}
         /\ o \in Operation /\ o.id = CaseRow(r).nextOp
         /\ Kind(r) = "create" =>
              Known(r) = {} /\ o.id = 1 /\ o.from = None /\ o.to = InitialState
                /\ CaseRow(r).state = InitialState
         /\ Kind(r) # "create" =>
              Chained(Known(r)) /\ LeadsTo(Known(r), cases[c].state) /\ cases[c].state \in States
         /\ Kind(r) = "transition" =>
              o.from = cases[c].state /\ o.to = CaseRow(r).state /\ Allowed(o.from, o.to)
         /\ Kind(r) \notin {"create", "transition"} =>
              o.to = None /\ CaseRow(r).state = cases[c].state
  <1> DEFINE c == work[r].case
             o == LoggedOperation(r)
  <1>1. /\ Active(r) /\ pc[r] \in {"held", "projected", "open", "ready"}
        /\ pc[r] \in {"open", "ready"} => ~Writing(r) /\ ~ReadsVersion(r)
        /\ Kind(r) = "create" => Writing(r)
    BY DEF ReadyToLog, AtEntry, Active, Writing, Decisions, HistoryInv, CaseInv, RequestInv, Carries
  <1>2. CaseInv /\ TypeOK /\ RequestInv(r) /\ work[r] \in Work /\ Told(r) /\ HistoryExplainsState
    BY <1>1, ActorParts DEF HistoryInv, Told
  <1>3. c \in CaseKeys /\ CaseRow(r) \in Row
    BY <1>1, <1>2, ActorParts DEF CaseRow, RequestInv, Carries
  <1>4. work[r].ops = {} /\ (Writing(r) => CaseRow(r) = work[r].row)
    BY <1>1, <1>2 DEF Told, AboutToExplain, RequestInv, Carries, Writing, CaseRow
  <1>5. o \in Operation /\ o.id = CaseRow(r).nextOp
    BY <1>1, <1>2, <1>3, LoggedOperationType DEF LoggedOperation, OperationId
  <1>6. Known(r) = Bearing(History(c))
    BY <1>4 DEF Known, Bearing
  <1>7. Kind(r) = "create" =>
          Known(r) = {} /\ o.id = 1 /\ o.from = None /\ o.to = InitialState
            /\ CaseRow(r).state = InitialState
    <2>1. HAVE Kind(r) = "create"
    <2>2. ~Exists(c) /\ History(c) = {} /\ Numbers({}, 1, CaseRow(r).nextOp)
      BY <1>1, <1>2, <1>3, <1>4, <2>1, KnownNumbered
      DEF RequestInv, OnCase, ContinuesHistory, NextId
    <2>3. CaseRow(r).nextOp = 1
      BY <1>3, <2>2 DEF Numbers, Row
    <2>4. CaseRow(r).state = InitialState
      BY <1>1, <1>2, <1>4, <2>1 DEF Told, AboutToExplain, Writing
    <2>5. o.from = None /\ o.to = InitialState
      BY <2>1 DEF LoggedOperation
    <2> QED BY <1>5, <1>6, <2>2, <2>3, <2>4, <2>5 DEF Bearing
  <1>8. Kind(r) # "create" =>
          Chained(Known(r)) /\ LeadsTo(Known(r), cases[c].state) /\ cases[c].state \in States
    <2>1. HAVE Kind(r) # "create"
    <2>2. Exists(c) /\ cases[c] \in Row
      BY <1>1, <1>2, <2>1, ActorParts DEF RequestInv, OnCase
    <2> QED BY <1>2, <1>3, <1>6, <2>2 DEF HistoryExplainsState, Row
  <1>9. Kind(r) = "transition" =>
          o.from = cases[c].state /\ o.to = CaseRow(r).state /\ Allowed(o.from, o.to)
    <2>1. HAVE Kind(r) = "transition"
    <2>2. pc[r] \in {"held", "projected"}
      BY <1>1, <2>1 DEF ReadsVersion
    <2>3. /\ CaseRow(r).state = cmd[r].to /\ seen[r].state = cases[c].state
          /\ Allowed(cases[c].state, CaseRow(r).state)
      BY <1>2, <1>4, <2>1, <2>2 DEF Told, AboutToExplain, Writing
    <2>4. o.from = seen[r].state /\ o.to = cmd[r].to
      BY <2>1 DEF LoggedOperation
    <2> QED BY <2>3, <2>4
  <1>10. Kind(r) \notin {"create", "transition"} =>
           o.to = None /\ CaseRow(r).state = cases[c].state
    <2>1. HAVE Kind(r) \notin {"create", "transition"}
    <2>2. o.to = None
      BY <2>1 DEF LoggedOperation
    <2>3. CASE Writing(r)
      BY <1>1, <1>2, <1>4, <2>1, <2>2, <2>3 DEF Told, AboutToExplain, Writing
    <2>4. CASE ~Writing(r)
      BY <1>2, <2>2, <2>4 DEF RequestInv, Carries, CaseRow
    <2> QED BY <2>3, <2>4
  <1> HIDE DEF c, o
  <1>11. QED
    BY <1>1, <1>3, <1>4, <1>5, <1>7, <1>8, <1>9, <1>10 DEF c, o

LEMMA AppendOperationTold ==
  ASSUME HistoryInv, CaseInv', NEW r \in Requests, AppendOperation(r)
  PROVE  HistoryInv'
  <1> DEFINE o == LoggedOperation(r)
             row == [CaseRow(r) EXCEPT !.nextOp = @ + 1]
             w == [work[r] EXCEPT !.row = row, !.ops = @ \cup {o}]
  <1>1. ReadyToLog(r) /\ UNCHANGED seen /\ Goto(r, "logged", w)
    BY DEF AppendOperation
  <1>2. /\ Active(r) /\ work[r].case \in CaseKeys /\ CaseRow(r) \in Row /\ work[r].ops = {}
        /\ o \in Operation /\ o.id = CaseRow(r).nextOp
    BY <1>1, BeforeLogging
  <1>3. TypeOK /\ work[r] \in Work
    BY <1>2, ActorParts DEF HistoryInv
  <1>4. row.state = CaseRow(r).state
    BY <1>2 DEF Row
  <1>5. Known(r) \in SUBSET Operation /\ \A q \in Known(r) : q.id < o.id
    BY <1>2, KnownNumbered
  <1>6. /\ Kind(r) = "create" =>
             Known(r) = {} /\ o.id = 1 /\ o.from = None /\ o.to = InitialState
               /\ row.state = InitialState
        /\ Kind(r) # "create" =>
             /\ Chained(Known(r)) /\ LeadsTo(Known(r), cases[work[r].case].state)
             /\ cases[work[r].case].state # None
        /\ Kind(r) = "transition" =>
             o.from = cases[work[r].case].state /\ o.to = row.state /\ Allowed(o.from, o.to)
        /\ Kind(r) \notin {"create", "transition"} =>
             o.to = None /\ row.state = cases[work[r].case].state
    BY <1>1, <1>4, BeforeLogging, NoneAssumption
  <1> HIDE DEF o, row
  <1>7. w.row = row /\ w.ops = work[r].ops \cup {o} /\ w.case = work[r].case
    BY <1>3 DEF Work
  <1> HIDE DEF w
  <1>8. /\ Apart(r) /\ UNCHANGED tables /\ pc'[r] = "logged" /\ work'[r] = w
    BY <1>1, <1>3, GotoApart
  <1>9. Known(r)' = Bearing((History(work[r].case) \cup work[r].ops) \cup {o})
    BY <1>7, <1>8 DEF Known, Bearing, History, tables
  <1>10. LeadsTo(Known(r)', row.state) /\ Chained(Known(r)')
    <2>1. CASE Kind(r) \in {"create", "transition"}
      <3>1. o.to # None
        BY <1>2, <1>6, <2>1, NoneAssumption, InitialStateAssumption, TransitionsAssumption DEF Allowed
      <3>2. Known(r)' = Known(r) \cup {o}
        BY <1>9, <3>1 DEF Known, Bearing
      <3>3. CASE Kind(r) = "create"
        <4>1. Chained({o}) /\ LeadsTo({o}, InitialState)
          BY <1>2, <1>6, <3>3, ChainStarts
        <4>2. Known(r)' = {o}
          BY <1>6, <3>2, <3>3
        <4> QED BY <1>6, <3>3, <4>1, <4>2
      <3>4. CASE Kind(r) = "transition"
        <4>1. Chained(Known(r) \cup {o}) /\ LeadsTo(Known(r) \cup {o}, o.to)
          BY <1>2, <1>5, <1>6, <3>4, ChainGrows
        <4> QED BY <1>6, <3>2, <3>4, <4>1
      <3> QED BY <2>1, <3>3, <3>4
    <2>2. CASE Kind(r) \notin {"create", "transition"}
      <3>1. Known(r)' = Known(r)
        BY <1>6, <1>9, <2>2, ChainKeeps DEF Known
      <3> QED BY <1>6, <2>2, <3>1
    <2> QED BY <2>1, <2>2
  <1>11. Told(r)'
    <2>1. Told(r)' = (ExplainsItsRow(r)' /\ AboutToExplain(r)')
      BY DEF Told
    <2>2. ExplainsItsRow(r)'
      <3>1. /\ LeadsTo(Known(r), work[r].row.state)' = LeadsTo(Known(r)', row.state)
            /\ Chained(Known(r))' = Chained(Known(r)')
        BY <1>7, <1>8 DEF LeadsTo, IsLatest, Chained, Before
      <3> QED BY <1>10, <3>1 DEF ExplainsItsRow
    <2>3. AboutToExplain(r)'
      BY <1>8 DEF AboutToExplain
    <2> QED BY <2>1, <2>2, <2>3
  <1> QED BY <1>8, <1>11, ApartSuffices

\* A rule's operation either has no state, and leaves the one of the row, or it takes
\* the row from its state to an allowed one.
LEMMA RuleActionTold ==
  ASSUME HistoryInv, CaseInv', NEW r \in Requests, RulesRun(r),
         NEW row \in Row, row.nextOp = work[r].row.nextOp,
         NEW type \in OperationTypes, NEW from \in States \cup {None},
         NEW to \in States \cup {None}, NEW events,
         RuleAction(r, row, type, from, to, events),
         \/ to = None /\ row.state = work[r].row.state
         \/ from = work[r].row.state /\ to = row.state /\ Allowed(from, to)
  PROVE  HistoryInv'
  <1> DEFINE c == work[r].case
             o == [case |-> c, id |-> OperationId(r), type |-> type, from |-> from, to |-> to,
                   by |-> r]
             next == [row EXCEPT !.nextOp = @ + 1]
             a == Events(r, {"rule.execute"})
             b == Events(r, events)
             w == [work[r] EXCEPT !.row = next, !.ops = @ \cup {o}, !.audit = @ \cup a,
                                  !.outbox = @ \cup b, !.fired = @ + 1]
  <1>1. /\ Active(r) /\ Writing(r) /\ pc[r] = "recorded" /\ UNCHANGED seen
        /\ Goto(r, "recorded", w)
    BY DEF RuleAction, RulesRun, Active, Writing
  <1>2. /\ TypeOK /\ CaseInv /\ work[r] \in Work /\ work[r].row \in Row /\ c \in CaseKeys
        /\ RequestInv(r) /\ Told(r)
    BY <1>1, ActorParts DEF HistoryInv, Told
  <1>3. CaseRow(r) = work[r].row
    BY <1>1, <1>2 DEF RequestInv, Carries, CaseRow
  <1>4. o \in Operation /\ o.id = CaseRow(r).nextOp /\ o.from = from /\ o.to = to
    BY <1>2, <1>3 DEF Operation, OperationId, Row
  <1>5. next.state = row.state
    BY DEF Row
  <1>6. Known(r) \in SUBSET Operation /\ \A q \in Known(r) : q.id < o.id
    BY <1>1, <1>2, <1>3, <1>4, KnownNumbered
  <1>7. Chained(Known(r)) /\ LeadsTo(Known(r), work[r].row.state) /\ work[r].row.state # None
    BY <1>1, <1>2, NoneAssumption DEF Told, ExplainsItsRow, Row
  <1> HIDE DEF o, next, a, b
  <1>8. w.row = next /\ w.ops = work[r].ops \cup {o} /\ w.case = c
    BY <1>2 DEF Work
  <1> HIDE DEF w
  <1>9. /\ Apart(r) /\ UNCHANGED tables /\ pc'[r] = "recorded" /\ work'[r] = w
    BY <1>1, <1>2, GotoApart
  <1>10. Known(r)' = Bearing((History(c) \cup work[r].ops) \cup {o})
    BY <1>8, <1>9 DEF Known, Bearing, History, tables
  <1>11. LeadsTo(Known(r)', next.state) /\ Chained(Known(r)')
    <2>1. CASE to = None /\ row.state = work[r].row.state
      <3>1. Known(r)' = Known(r)
        BY <1>4, <1>10, <2>1, ChainKeeps DEF Known
      <3> QED BY <1>5, <1>7, <2>1, <3>1
    <2>2. CASE from = work[r].row.state /\ to = row.state /\ Allowed(from, to)
      <3>1. o.to # None
        BY <1>4, <2>2, NoneAssumption, TransitionsAssumption DEF Allowed
      <3>2. Known(r)' = Known(r) \cup {o}
        BY <1>10, <3>1 DEF Known, Bearing
      <3>3. Chained(Known(r) \cup {o}) /\ LeadsTo(Known(r) \cup {o}, o.to)
        BY <1>4, <1>6, <1>7, <2>2, ChainGrows
      <3> QED BY <1>4, <1>5, <2>2, <3>2, <3>3
    <2> QED BY <2>1, <2>2
  <1>12. ExplainsItsRow(r)'
    <2>1. /\ LeadsTo(Known(r), work[r].row.state)' = LeadsTo(Known(r)', next.state)
          /\ Chained(Known(r))' = Chained(Known(r)')
      BY <1>8, <1>9 DEF LeadsTo, IsLatest, Chained, Before
    <2> QED BY <1>11, <2>1 DEF ExplainsItsRow
  <1>13. AboutToExplain(r)'
    BY <1>9 DEF AboutToExplain
  <1> QED BY <1>9, <1>12, <1>13, ApartSuffices DEF Told

LEMMA RulesTold ==
  ASSUME HistoryInv, CaseInv', NEW r \in Requests,
         RuleSetState(r) \/ RuleUpdateValues(r) \/ RuleRecord(r)
  PROVE  HistoryInv'
  <1>1. RulesRun(r)
    BY DEF RuleSetState, RuleUpdateValues, RuleRecord
  <1>2. work[r].row \in Row /\ Bump(work[r].row) \in Row
    BY <1>1, ActorParts, BumpType DEF HistoryInv, RulesRun, Active, Writing
  <1>3. {"state_change", "rule_update_values", "rule_action"} \subseteq OperationTypes
    BY DEF OperationTypes
  <1>4. CASE RuleSetState(r)
    <2>1. PICK s \in States :
            /\ Allowed(work[r].row.state, s)
            /\ RuleAction(r, [Bump(work[r].row) EXCEPT !.state = s], "state_change",
                          work[r].row.state, s, {"case.state.changed"})
      BY <1>4 DEF RuleSetState
    <2> DEFINE row == [Bump(work[r].row) EXCEPT !.state = s]
    <2>2. /\ row \in Row /\ row.state = s /\ row.nextOp = work[r].row.nextOp
          /\ work[r].row.state \in States
      BY <1>2 DEF Bump, Row
    <2>3. RuleAction(r, row, "state_change", work[r].row.state, s, {"case.state.changed"})
      BY <2>1
    <2> HIDE DEF row
    <2> QED BY <1>1, <1>3, <2>1, <2>2, <2>3, RuleActionTold
  <1>5. CASE RuleUpdateValues(r)
    <2>1. PICK set \in Payload :
            RuleAction(r, IF DOMAIN set = {} THEN work[r].row
                          ELSE [Bump(work[r].row) EXCEPT !.fields = Overlay(set, @)],
                       "rule_update_values", None, None, {})
      BY <1>5 DEF RuleUpdateValues
    <2> DEFINE row == IF DOMAIN set = {} THEN work[r].row
                      ELSE [Bump(work[r].row) EXCEPT !.fields = Overlay(set, @)]
    <2>2. Overlay(set, Bump(work[r].row).fields) \in [Fields -> Values \cup {None}]
      BY <1>2, OverlayType DEF Row
    <2>3. /\ row \in Row /\ row.state = work[r].row.state /\ row.nextOp = work[r].row.nextOp
      BY <1>2, <2>2 DEF Bump, Row
    <2>4. RuleAction(r, row, "rule_update_values", None, None, {})
      BY <2>1
    <2> HIDE DEF row
    <2> QED BY <1>1, <1>3, <2>3, <2>4, RuleActionTold
  <1>6. CASE RuleRecord(r)
    <2>1. PICK events : RuleAction(r, work[r].row, "rule_action", None, None, events)
      BY <1>6 DEF RuleRecord
    <2> QED BY <1>1, <1>2, <1>3, <2>1, RuleActionTold
  <1> QED BY <1>4, <1>5, <1>6

-----------------------------------------------------------------------------
(* The commit: what explained the request's row now explains the case's. *)

LEMMA CommitTold ==
  ASSUME HistoryInv, CaseInv', NEW r \in Requests, pc[r] = "recorded", NEW told,
         Install(r), Finish(r, told)
  PROVE  HistoryInv'
  <1> DEFINE row == work[r].row
  <1>1. CaseInv /\ Told(r) /\ HistoryExplainsState
    BY DEF HistoryInv, Told
  <1>2. PICK c \in CaseKeys :
          /\ c = work[r].case /\ TypeOK /\ RequestInv(r) /\ Writing(r) /\ lock[c] = r
          /\ cases' = [cases EXCEPT ![c] = row] /\ operations' = operations \cup work[r].ops
          /\ pc'[r] = "done" /\ OthersStand(r)
    BY <1>1, CommitParts
  <1>3. \A o \in work[r].ops : o.case = c
    BY <1>2 DEF RequestInv, ContinuesHistory
  <1>4. /\ History(c)' = History(c) \cup work[r].ops /\ cases'[c] = row
        /\ \A d \in CaseKeys \ {c} : History(d)' = History(d) /\ cases'[d] = cases[d]
    BY <1>2, <1>3 DEF History, TypeOK
  <1>5. Bearing(History(c)') = Known(r)
    BY <1>2, <1>4 DEF Known
  <1>6. HistoryExplainsState'
    <2> SUFFICES ASSUME NEW d \in CaseKeys, cases'[d] # None
                 PROVE  LeadsTo(Bearing(History(d)'), cases'[d].state) /\ Chained(Bearing(History(d)'))
      BY DEF HistoryExplainsState, Exists, LeadsTo, IsLatest, Chained, Before, Bearing
    <2>1. CASE d = c
      BY <1>1, <1>4, <1>5, <2>1 DEF Told, ExplainsItsRow
    <2>2. CASE d # c
      BY <1>1, <1>4, <2>2 DEF HistoryExplainsState, Exists
    <2> QED BY <2>1, <2>2
  <1>7. Told(r)'
    BY <1>2 DEF Told, ExplainsItsRow, AboutToExplain
  <1>8. ASSUME NEW q \in Requests \ {r}
        PROVE  Told(q)'
    <2>1. /\ pc'[q] = pc[q] /\ work'[q] = work[q] /\ seen'[q] = seen[q] /\ cmd'[q] = cmd[q]
          /\ Kind(q)' = Kind(q) /\ RequestInv(q) /\ Told(q)
      BY <1>1, <1>2, <1>8 DEF OthersStand, Kind, CaseInv, HistoryInv, Told
    <2>2. Writing(q) => work[q].case \in CaseKeys \ {c}
      BY <1>1, <1>2, <2>1, ActorParts DEF RequestInv, HoldsLocks, Active, Writing
    <2>3. Writing(q) =>
            History(work[q].case)' = History(work[q].case) /\ cases'[work[q].case] = cases[work[q].case]
      <3>1. ASSUME NEW d \in CaseKeys \ {c}, d = work[q].case
            PROVE  History(work[q].case)' = History(d)
        BY <1>4, <2>1, <3>1 DEF History
      <3> QED BY <1>4, <2>2, <3>1
    <2>4. Writing(q) => Known(q)' = Known(q)
      BY <2>1, <2>3 DEF Known, Bearing
    <2>5. ExplainsItsRow(q)'
      BY <2>1, <2>4 DEF Told, ExplainsItsRow, LeadsTo, IsLatest, Chained, Before, Writing
    <2>6. AboutToExplain(q)'
      BY <2>1, <2>3 DEF Told, AboutToExplain, Allowed, Writing
    <2> QED BY <2>5, <2>6 DEF Told
  <1> QED BY <1>6, <1>7, <1>8 DEF HistoryInv, Told

-----------------------------------------------------------------------------
(* The theorems. *)

LEMMA HistoryInit ==
  ASSUME Init
  PROVE  HistoryInv
  <1>1. CaseInv
    BY InitInv
  <1>2. HistoryExplainsState
    BY DEF Init, InitTables, HistoryExplainsState, Exists
  <1>3. \A r \in Requests : pc[r] = "idle"
    BY DEF Init
  <1> QED BY <1>1, <1>2, <1>3 DEF HistoryInv, ExplainsItsRow, AboutToExplain

LEMMA HistoryStutters ==
  ASSUME HistoryInv, CaseInv', UNCHANGED vars
  PROVE  HistoryInv'
  <1>1. UNCHANGED <<cases, operations, pc, cmd, seen, work>>
    BY DEF vars, tables, request
  <1>2. /\ \A c : History(c)' = History(c)
        /\ \A r \in Requests : Known(r)' = Known(r) /\ Kind(r)' = Kind(r)
    BY <1>1 DEF History, Known, Bearing, Kind
  <1>3. HistoryExplainsState'
    BY <1>1, <1>2
    DEF HistoryInv, HistoryExplainsState, Exists, LeadsTo, IsLatest, Chained, Before, Bearing
  <1>4. \A r \in Requests : ExplainsItsRow(r)' /\ AboutToExplain(r)'
    BY <1>1, <1>2
    DEF HistoryInv, ExplainsItsRow, AboutToExplain, LeadsTo, IsLatest, Chained, Before, Allowed
  <1> QED BY <1>3, <1>4 DEF HistoryInv

\* state-machine.ts, operations.ts: at every statement of every request, what is logged,
\* committed or not, explains the row it is logged for.
THEOREM HistoryInvariance == Spec => []HistoryInv
  <1>1. Init => HistoryInv
    BY HistoryInit
  <1>2. HistoryInv /\ [Next]_vars => HistoryInv'
    <2> SUFFICES ASSUME HistoryInv, [Next]_vars
                 PROVE  HistoryInv'
      OBVIOUS
    <2>1. CaseInv'
      BY NextInv DEF HistoryInv
    <2>2. CASE UNCHANGED vars
      BY <2>1, <2>2, HistoryStutters
    <2>3. ASSUME NEW r \in Requests, Commit(r) \/ CommitUnacknowledged(r)
          PROVE  HistoryInv'
      BY <2>1, <2>3, CommitTold DEF Commit, CommitUnacknowledged
    <2> QED
      BY <2>1, <2>2, <2>3, QuietTold, AllocateNumberTold, UpdateCaseTold, SameRowTold,
         AppendOperationTold, RulesTold
      DEF Next, Advance, Terminated
  <1> QED BY <1>1, <1>2, PTL DEF Spec

\* state-machine.ts: "state and history never diverge".  Whatever the interleaving, the
\* failures and the rules, the committed operations of a case are a chain of configured
\* transitions from the initial state to the state the case is in.
THEOREM HistoryExplains == Spec => []HistoryExplainsState
  <1>1. HistoryInv => HistoryExplainsState
    BY DEF HistoryInv
  <1> QED BY <1>1, HistoryInvariance, PTL
=============================================================================
