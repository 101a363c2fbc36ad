---------------------------- MODULE AccessProofs ----------------------------
(***************************************************************************)
(* Proofs, for every number of clients, requests, cases, categories and    *)
(* grants, of what Access promises of whoever is served and whoever is     *)
(* turned away, while an administrator changes the tables they are judged  *)
(* by between their statements.                                            *)
(***************************************************************************)
EXTENDS Access, SequenceTheorems, TLAPS

-----------------------------------------------------------------------------
(* The two implementations of containment. *)

\* A prefix of the stored path is the same, level by level, of the display codes.
LEMMA SameContainment ==
  ASSUME NEW code \in Categories, NEW root \in Categories
  PROVE  isWithin(code, root) <=> Below(code, root)
  <1> DEFINE c == normalizePath(code)
             r == normalizePath(root)
  <1>1. /\ code \in Seq(Nat \X Nat) /\ root \in Seq(Nat \X Nat)
        /\ Len(code) \in Nat /\ DOMAIN code = 1 .. Len(code)
        /\ Len(root) \in Nat /\ DOMAIN root = 1 .. Len(root)
    BY CategoriesAssumption
  <1>2. /\ c \in Seq(Nat) /\ Len(c) = Len(code)
        /\ r \in Seq(Nat) /\ Len(r) = Len(root)
    BY <1>1 DEF normalizePath
  <1>3. CASE ~ (Len(root) <= Len(code))
    BY <1>2, <1>3 DEF isWithin, IsPrefix, Below
  <1>4. CASE Len(root) <= Len(code)
    <2> DEFINE n == Len(root)
               a == SubSeq(r, 1, n)
               b == SubSeq(c, 1, n)
    <2>1. /\ \A i \in 1 .. n : c[i] = code[i][1] /\ r[i] = root[i][1]
          /\ \A i \in 1 .. n : c[i] \in Nat /\ r[i] \in Nat
      BY <1>1, <1>2, <1>4 DEF normalizePath
    <2>2. /\ a \in Seq(Nat) /\ Len(a) = n
          /\ \A i \in 1 .. n : a[i] = r[i]
      <3>1. /\ a \in Seq(Nat)
            /\ Len(a) = IF 1 <= n THEN n - 1 + 1 ELSE 0
            /\ \A i \in 1 .. n - 1 + 1 : a[i] = r[1 + i - 1]
        BY <1>1, <2>1, SubSeqProperties
      <3> QED BY <3>1, <1>1
    <2>3. /\ b \in Seq(Nat) /\ Len(b) = n
          /\ \A i \in 1 .. n : b[i] = c[i]
      <3>1. /\ b \in Seq(Nat)
            /\ Len(b) = IF 1 <= n THEN n - 1 + 1 ELSE 0
            /\ \A i \in 1 .. n - 1 + 1 : b[i] = c[1 + i - 1]
        BY <1>1, <2>1, SubSeqProperties
      <3> QED BY <3>1, <1>1
    <2>4. a = b <=> \A i \in 1 .. n : a[i] = b[i]
      <3> HIDE DEF a, b
      <3> QED BY <2>2, <2>3, SeqEqual
    <2>5. isWithin(code, root) <=> a = b
      BY <1>2, <1>4 DEF isWithin, IsPrefix
    <2> QED BY <1>4, <2>1, <2>2, <2>3, <2>4, <2>5 DEF Below
  <1> QED BY <1>3, <1>4

-----------------------------------------------------------------------------
(* What a step does to the requests and to what is said of them. *)

Progress(q) == <<req[q], pc[q], as[q], stamp[q], seen[q], given[q], answer[q]>>

\* A step of one request leaves the progress of the others alone.
LEMMA OthersStand ==
  ASSUME AccessTypes, NEW q \in Requests, Serve(q), NEW p \in Requests \ {q}
  PROVE  UNCHANGED Progress(p)
  <1> USE DEF Progress, AccessTypes, Goto, Finish, Respond, Sees
  <1>1. CASE Dispatch(q)
    BY <1>1 DEF Dispatch
  <1>2. CASE Look(q)
    BY <1>2 DEF Look
  <1>3. CASE TurnAway(q)
    BY <1>3 DEF TurnAway
  <1>4. CASE Authorise(q)
    BY <1>4 DEF Authorise
  <1>5. CASE Commit(q)
    BY <1>5 DEF Commit
  <1>6. CASE RollBack(q)
    BY <1>6 DEF RollBack
  <1>7. CASE GiveCase(q)
    BY <1>7 DEF GiveCase
  <1>8. CASE FindHandler(q)
    BY <1>8 DEF FindHandler
  <1>9. CASE InsertHandler(q)
    BY <1>9 DEF InsertHandler
  <1>10. CASE LoadGrants(q)
    BY <1>10 DEF LoadGrants
  <1>11. CASE ListCases(q)
    BY <1>11 DEF ListCases
  <1> QED
    BY <1>1, <1>2, <1>3, <1>4, <1>5, <1>6, <1>7, <1>8, <1>9, <1>10, <1>11 DEF Serve

\* Who asks for what is settled when a request begins, and all that follows from it.
LEMMA SameClient ==
  ASSUME NEW q, req'[q] = req[q], as'[q] = as[q]
  PROVE  /\ Op(q)' = Op(q) /\ RegistryOf(q)' = RegistryOf(q)
         /\ Kind(as[q])' = Kind(as[q])
         /\ RightKind(q)' <=> RightKind(q)
         /\ KindMay(q)' <=> KindMay(q)
         /\ InScope(q)' <=> InScope(q)
         /\ trustZoneAllows(req[q].zone, Op(q), Kind(as[q]))' <=>
              trustZoneAllows(req[q].zone, Op(q), Kind(as[q]))
  <1>1. Op(q)' = Op(q) /\ RegistryOf(q)' = RegistryOf(q)
    BY DEF Op, RegistryOf
  <1>2. Kind(as[q])' = Kind(as[q])
    BY DEF Kind
  <1>3. RightKind(q)' <=> RightKind(q)
    BY <1>1, <1>2 DEF RightKind
  <1>4. KindMay(q)' <=> KindMay(q)
    BY <1>1, <1>2 DEF KindMay
  <1>5. Resource(Op(q))' = Resource(Op(q))
    BY <1>1 DEF Resource
  <1>6. InScope(q)' <=> InScope(q)
    BY <1>1, <1>5 DEF InScope
  <1>7. trustZoneAllows(req[q].zone, Op(q), Kind(as[q]))' <=>
          trustZoneAllows(req[q].zone, Op(q), Kind(as[q]))
    BY <1>1, <1>2 DEF trustZoneAllows, AnyPath, AnyKind
  <1> QED BY <1>1, <1>2, <1>3, <1>4, <1>6, <1>7

\* A kind is one of four, and says which.
LEMMA Kinds ==
  ASSUME NEW who
  PROVE  /\ Kind(who) \in {"worker", "customer", "token", "public"}
         /\ Kind(who) = "worker" <=> who \in Workers
         /\ Kind(who) = "customer" <=> who \in Customers
         /\ Kind(who) = "token" <=> who \in Tokens
  BY ClientsAssumption DEF Kind

\* What the history keeps.
LEMMA Witnessed ==
  ASSUME AccessTypes, Witness, NEW q \in Requests
  PROVE  /\ trusted[q] => trusted'[q]
         /\ may[q] \subseteq may'[q]
         /\ pc[q] # "new" \/ pc'[q] = "new" => must'[q] \subseteq must[q]
         /\ pc[q] # "done" /\ pc'[q] # "new" =>
              /\ Trusted(q)' => trusted'[q]
              /\ \A c \in Cases : Entitled(q, c)' => c \in may'[q]
              /\ must'[q] \subseteq Owed(q)'
  BY DEF Witness, Began, AccessTypes

LEMMA WitnessTyped ==
  ASSUME AccessTypes, Witness
  PROVE  /\ trusted' \in [Requests -> BOOLEAN]
         /\ may' \in [Requests -> SUBSET Cases] /\ must' \in [Requests -> SUBSET Cases]
  <1>1. \A q \in Requests : Owed(q)' \subseteq Cases
    BY DEF Owed
  <1>2. trusted' \in [Requests -> BOOLEAN]
    BY DEF Witness, AccessTypes
  <1>3. may' \in [Requests -> SUBSET Cases]
    BY DEF Witness, AccessTypes
  <1>4. must' \in [Requests -> SUBSET Cases]
    BY <1>1 DEF Witness, AccessTypes
  <1> QED BY <1>2, <1>3, <1>4

\* What the invariant says of one request.
RequestFacts(q) ==
  Admitted(q) /\ OnPath(q) /\ Authorised(q) /\ TokenSaw(q) /\ GrantsSaw(q) /\ Answered(q)

\* It is not disturbed by what others do, nor by the tables.
LEMMA Bystander ==
  ASSUME AccessTypes, Witness, NEW q \in Requests, RequestFacts(q), UNCHANGED Progress(q)
  PROVE  RequestFacts(q)'
  <1>1. /\ req'[q] = req[q] /\ pc'[q] = pc[q] /\ as'[q] = as[q] /\ stamp'[q] = stamp[q]
        /\ seen'[q] = seen[q] /\ given'[q] = given[q] /\ answer'[q] = answer[q]
    BY DEF Progress
  <1>2. /\ trusted[q] => trusted'[q]
        /\ may[q] \subseteq may'[q]
        /\ must'[q] \subseteq must[q]
    BY <1>1, Witnessed
  <1>3. /\ Op(q)' = Op(q) /\ RegistryOf(q)' = RegistryOf(q)
        /\ Kind(as[q])' = Kind(as[q])
        /\ RightKind(q)' <=> RightKind(q)
        /\ KindMay(q)' <=> KindMay(q)
        /\ InScope(q)' <=> InScope(q)
        /\ trustZoneAllows(req[q].zone, Op(q), Kind(as[q]))' <=>
             trustZoneAllows(req[q].zone, Op(q), Kind(as[q]))
    BY <1>1, SameClient
  <1>4. Admitted(q)'
    BY <1>1, <1>2, <1>3 DEF RequestFacts, Admitted, Served, UnderWay
  <1>5. OnPath(q)'
    BY <1>1, <1>3 DEF RequestFacts, OnPath
  <1>6. Authorised(q)'
    BY <1>1, <1>2, <1>3 DEF RequestFacts, Authorised
  <1>7. TokenSaw(q)'
    BY <1>1, <1>2, <1>3 DEF RequestFacts, TokenSaw
  <1>8. GrantsSaw(q)'
    <2>1. \A c \in Cases : Within(c, seen[q])' <=> Within(c, seen[q])
      BY <1>1 DEF Within
    <2> QED BY <1>1, <1>2, <1>3, <2>1 DEF RequestFacts, GrantsSaw
  <1>9. Answered(q)'
    BY <1>1, <1>2, <1>3 DEF RequestFacts, Answered
  <1> QED BY <1>4, <1>5, <1>6, <1>7, <1>8, <1>9 DEF RequestFacts

-----------------------------------------------------------------------------
(* The types. *)

LEMMA PrincipalTyped ==
  ASSUME AccessTypes, NEW who \in Clients \cup {None}
  PROVE  resolvePrincipal(who) \in Clients \cup {None}
  BY DEF resolvePrincipal

LEMMA ServeTyped ==
  ASSUME AccessTypes, NEW q \in Requests, Admitted(q), Serve(q), UNCHANGED tables, Witness
  PROVE  AccessTypes'
  <1>1. /\ trusted' \in [Requests -> BOOLEAN]
        /\ may' \in [Requests -> SUBSET Cases] /\ must' \in [Requests -> SUBSET Cases]
    BY WitnessTyped
  <1>2. /\ clock' \in Nat /\ acts' \in Nat
        /\ active' \subseteq Workers \cup Customers \cup Categories
        /\ grants' \in [Workers \X Registries \X Categories -> GrantRow \cup {None}]
        /\ DOMAIN tokens' = Tokens
    BY DEF AccessTypes, tables
  <1> DEFINE Typed ==
        /\ cases' \subseteq Cases /\ waiting' \subseteq Cases /\ audited' \subseteq Requests
        /\ req' \in [Requests -> Request \cup {None}]
        /\ pc' \in [Requests -> {"new", "look", "authorise", "act", "insert", "list", "done"}]
        /\ as' \in [Requests -> Clients \cup {None}]
        /\ stamp' \in [Requests -> Nat]
        /\ DOMAIN seen' = Requests
        /\ given' \in [Requests -> SUBSET Cases]
        /\ answer' \in [Requests -> {"ok", "refused", "absent", "error", None}]
  <1> USE DEF AccessTypes, Goto, Finish, Respond, Sees, store
  <1>3. req[q] # None => req[q].who \in Clients \cup {None} /\ req[q].case \in Cases
    BY DEF Request
  <1>4. ASSUME Dispatch(q)
        PROVE  Typed
    <2>1. req[q] # None /\ resolvePrincipal(req[q].who) \in Clients \cup {None}
      BY <1>3, <1>4, PrincipalTyped DEF Dispatch
    <2> QED BY <1>4, <2>1 DEF Dispatch
  <1>5. ASSUME Look(q)
        PROVE  Typed
    BY <1>5 DEF Look
  <1>6. ASSUME TurnAway(q)
        PROVE  Typed
    BY <1>6 DEF TurnAway
  <1>7. ASSUME Authorise(q)
        PROVE  Typed
    BY <1>7 DEF Authorise
  <1>8. ASSUME Commit(q) \/ RollBack(q)
        PROVE  Typed
    <2>1. req[q].case \in Cases
      BY <1>3, <1>8 DEF Commit, RollBack, At, Admitted
    <2>2. ASSUME Commit(q)
          PROVE  cases' \subseteq Cases /\ waiting' \subseteq Cases
      BY <2>1, <2>2 DEF Commit
    <2>3. ASSUME Commit(q)
          PROVE  Typed
      BY <2>2, <2>3 DEF Commit
    <2>4. ASSUME RollBack(q)
          PROVE  Typed
      BY <2>4 DEF RollBack
    <2> QED BY <1>8, <2>3, <2>4
  <1>13. ASSUME GiveCase(q)
        PROVE  Typed
    BY <1>3, <1>13 DEF GiveCase, At, Admitted
  <1>9. ASSUME FindHandler(q)
        PROVE  Typed
    BY <1>9 DEF FindHandler
  <1>10. ASSUME InsertHandler(q)
        PROVE  Typed
    BY <1>10 DEF InsertHandler, AuditedIfKept
  <1>11. ASSUME LoadGrants(q)
        PROVE  Typed
    BY <1>11 DEF LoadGrants
  <1>12. ASSUME ListCases(q)
        PROVE  Typed
    BY <1>12 DEF ListCases
  <1>14. Typed
    BY <1>4, <1>5, <1>6, <1>7, <1>8, <1>9, <1>10, <1>11, <1>12, <1>13 DEF Serve
  <1> QED BY <1>1, <1>2, <1>14

LEMMA AdministerTyped ==
  ASSUME AccessTypes, Administer, Witness
  PROVE  AccessTypes'
  <1>1. /\ trusted' \in [Requests -> BOOLEAN]
        /\ may' \in [Requests -> SUBSET Cases] /\ must' \in [Requests -> SUBSET Cases]
    BY WitnessTyped
  <1> DEFINE Typed ==
        /\ clock' \in Nat /\ acts' \in Nat
        /\ active' \subseteq Workers \cup Customers \cup Categories
        /\ grants' \in [Workers \X Registries \X Categories -> GrantRow \cup {None}]
        /\ DOMAIN tokens' = Tokens
  <1> USE DEF AccessTypes, Act
  <1>2. ASSUME NEW w \in Workers, NEW g \in Registries, NEW k \in Categories, NEW body \in GrantInputs,
               grantAuthorization(w, g, k, body)
        PROVE  Typed
    <2>1. body \in GrantBody /\ Readable(body.from) /\ Readable(body.until)
      BY <1>2, GrantsAssumption DEF grantAuthorization
    <2>2. \A text \in Text \cup {None} : Readable(text) => text \in Bound \cup {None}
      BY DEF Readable, Text, Bound
    <2>3. body.from \in Bound \cup {None} /\ body.until \in Bound \cup {None}
      BY <2>1, <2>2 DEF GrantBody
    <2>4. body \in GrantRow
      BY <2>1, <2>3 DEF GrantBody, GrantRow
    <2> QED BY <1>2, <2>4 DEF grantAuthorization
  <1>3. ASSUME NEW t \in Tokens, mintToken(t) \/ revokeToken(t)
        PROVE  Typed
    BY <1>3 DEF mintToken, revokeToken
  <1>4. ASSUME Deactivate
        PROVE  Typed
    BY <1>4 DEF Deactivate
  <1>5. ASSUME Tick
        PROVE  Typed
    BY <1>5 DEF Tick
  <1>6. Typed
    BY <1>2, <1>3, <1>4, <1>5 DEF Administer
  <1> QED BY <1>1, <1>6 DEF Administer, store, progress

-----------------------------------------------------------------------------
(* The assignments. *)

\* A step that leaves the rows and the audit alone must not answer an assignment.
LEMMA NoAssignment ==
  ASSUME AccessTypes, AssignmentsRecorded, UNCHANGED <<handlers, audited>>, req' = req,
         \A p \in Requests : Began(p) => Began(p)' /\ as'[p] = as[p],
         \A p \in Requests : Op(p) = "assign" =>
           (Began(p)' /\ answer'[p] = "ok" <=> Began(p) /\ answer[p] = "ok")
  PROVE  AssignmentsRecorded'
  <1>1. \A p \in Requests : Op(p)' = Op(p)
    BY DEF Op
  <1>2. audited' = {p \in Requests : Began(p)' /\ Op(p)' = "assign" /\ answer'[p] = "ok"}
    BY <1>1 DEF AssignmentsRecorded
  <1>3. \A p \in audited : HandlerRow(p)' = HandlerRow(p)
    BY DEF HandlerRow, AssignmentsRecorded
  <1>4. handlers' = {HandlerRow(p)' : p \in audited'}
    BY <1>3 DEF AssignmentsRecorded
  <1> QED BY <1>2, <1>4 DEF AssignmentsRecorded

-----------------------------------------------------------------------------
(* Rights.  What a check of the code finds is what Entitled says, and what it does *)
(* not find, Entitled denies.                                                      *)

\* Of ISO timestamps the order of the texts is that of the moments; for other texts it is
\* what Held says.
LEMMA HeldAsRead ==
  ASSUME NEW row \in GrantRow, NEW at \in Nat
  PROVE  Held(row, at) <=> Begun(row.from, at) /\ NotOver(row.until, at)
  <1>1. row.from \in Bound \cup {None} /\ row.until \in Bound \cup {None}
    BY DEF GrantRow
  <1>2. \A bound \in Bound :
          /\ bound.means \in Int /\ bound.sorts \in Int
          /\ bound.sorts = TextOf(bound.means) =>
               /\ bound.means <= at <=> bound.sorts <= TextOf(at)
               /\ at <= bound.means <=> TextOf(at) <= bound.sorts
    BY DEF Bound, TextOf
  <1>3. CASE InIsoForm(row)
    <2>1. row.from # None => (row.from.means <= at <=> row.from.sorts <= TextOf(at))
      BY <1>1, <1>2, <1>3 DEF InIsoForm
    <2>2. row.until # None => (at <= row.until.means <=> TextOf(at) <= row.until.sorts)
      BY <1>1, <1>2, <1>3 DEF InIsoForm
    <2> QED BY <1>3, <2>1, <2>2 DEF Held, Meant, Begun, NotOver
  <1>4. CASE ~InIsoForm(row)
    BY <1>4 DEF Held, Begun, NotOver
  <1> QED BY <1>3, <1>4

\* The rows the queries find are those that hold.
LEMMA InForceIsHeld ==
  ASSUME AccessTypes, NEW w \in Workers, NEW g \in Registries, NEW k \in Categories, NEW at \in Nat
  PROVE  k \in GrantsInForce(w, g, at) <=>
           /\ grants[<<w, g, k>>] # None /\ w \in active /\ k \in active
           /\ Held(grants[<<w, g, k>>], at)
  <1>1. grants[<<w, g, k>>] \in GrantRow \cup {None}
    BY DEF AccessTypes
  <1>2. grants[<<w, g, k>>] # None =>
          (Held(grants[<<w, g, k>>], at) <=>
             Begun(grants[<<w, g, k>>].from, at) /\ NotOver(grants[<<w, g, k>>].until, at))
    BY <1>1, HeldAsRead
  <1> QED BY <1>2 DEF GrantsInForce, AnyTime

\* A worker's permission is a grant of the case's registry, of a category above its own.
LEMMA PermissionIsGrant ==
  ASSUME AccessTypes, NEW w \in Workers, NEW c \in Cases, NEW permission, NEW at \in Nat
  PROVE  workerCanAccessCategory(w, CaseOf[c].registry, CaseOf[c].category, permission, at)
           <=> Granted(w, c, {permission}, at)
  <1> DEFINE g == CaseOf[c].registry
             code == CaseOf[c].category
  <1>1. g \in Registries /\ code \in Categories
    BY CasesAssumption
  <1>2. \A k \in Categories : IsPrefix(normalizePath(k), normalizePath(code)) <=> Below(code, k)
    BY <1>1, SameContainment DEF isWithin
  <1>3. \A k \in Categories :
          k \in GrantsInForce(w, g, at) <=>
            /\ grants[<<w, g, k>>] # None /\ w \in active /\ k \in active
            /\ Held(grants[<<w, g, k>>], at)
    BY <1>1, InForceIsHeld
  <1>4. GrantsInForce(w, g, at) \subseteq Categories
    BY DEF GrantsInForce, AnyTime
  <1> QED BY <1>2, <1>3, <1>4 DEF workerCanAccessCategory, Granted

\* So are the rows of a worker's grants that are left after the flags are looked at.
LEMMA RowsAreGrants ==
  ASSUME AccessTypes, NEW w \in Workers, NEW c \in Cases, NEW flags, NEW at \in Nat, "read" \in flags, NEW rows,
         rows = {row \in WorkerGrants(w, CaseOf[c].registry, at) : flags \subseteq row.rights}
  PROVE  Within(c, rows) <=> Granted(w, c, flags, at)
  <1> DEFINE g == CaseOf[c].registry
             code == CaseOf[c].category
             Row(k) == [code |-> k, rights |-> grants[<<w, g, k>>].rights]
             inForce == {k \in GrantsInForce(w, g, at) : "read" \in grants[<<w, g, k>>].rights}
  <1>1. g \in Registries /\ code \in Categories
    BY CasesAssumption
  <1>2. \A k \in Categories :
          k \in GrantsInForce(w, g, at) <=>
            /\ grants[<<w, g, k>>] # None /\ w \in active /\ k \in active
            /\ Held(grants[<<w, g, k>>], at)
    BY <1>1, InForceIsHeld
  <1>3. inForce \subseteq Categories
    BY DEF GrantsInForce, AnyTime
  <1>4. WorkerGrants(w, g, at) = {Row(k) : k \in inForce}
    BY DEF WorkerGrants
  <1>5. \A k : Row(k).code = k /\ Row(k).rights = grants[<<w, g, k>>].rights
    OBVIOUS
  <1>6. ASSUME Within(c, rows)
        PROVE  Granted(w, c, flags, at)
    <2>1. PICK row \in rows : isWithin(code, row.code)
      BY <1>6 DEF Within
    <2>2. PICK k \in inForce : row = Row(k)
      BY <1>4, <2>1
    <2>3. /\ k \in Categories /\ k \in GrantsInForce(w, g, at)
          /\ flags \subseteq grants[<<w, g, k>>].rights /\ isWithin(code, k)
      BY <1>3, <1>5, <2>1, <2>2
    <2>4. Below(code, k)
      BY <1>1, <2>3, SameContainment
    <2> QED BY <1>2, <2>3, <2>4 DEF Granted
  <1>7. ASSUME Granted(w, c, flags, at)
        PROVE  Within(c, rows)
    <2>1. PICK k \in Categories :
            /\ grants[<<w, g, k>>] # None /\ w \in active /\ k \in active
            /\ Held(grants[<<w, g, k>>], at)
            /\ flags \subseteq grants[<<w, g, k>>].rights
            /\ Below(code, k)
      BY <1>7 DEF Granted
    <2>2. k \in inForce /\ isWithin(code, k)
      BY <1>1, <1>2, <2>1, SameContainment
    <2>3. Row(k) \in rows
      BY <1>4, <1>5, <2>1, <2>2
    <2> QED BY <1>5, <2>2, <2>3 DEF Within
  <1> QED BY <1>6, <1>7

\* Who is refused for being of the wrong kind has no right to the case at any moment.
LEMMA WrongKind ==
  ASSUME NEW q, NEW c, Op(q) \in Effects \cup {"read"}, Entitled(q, c)
  PROVE  RightKind(q) /\ KindMay(q)
  <1>1. Kind(as[q]) \in {"worker", "customer", "token", "public"}
    BY Kinds
  <1>2. CASE Kind(as[q]) = "worker"
    BY <1>2 DEF Entitled, RightKind, KindMay, Effects, WorkerOnly, WorkerPaths, Queues
  <1>3. CASE Kind(as[q]) = "customer"
    BY <1>3 DEF Entitled, RightKind, KindMay, Effects, WorkerOnly, WorkerPaths, Queues
  <1>4. CASE Kind(as[q]) = "token"
    BY <1>4 DEF Entitled, RightKind, KindMay, Effects, WorkerOnly, WorkerPaths, Queues
  <1>5. CASE Kind(as[q]) = "public"
    BY <1>5 DEF Entitled, RightKind, KindMay, Effects, WorkerOnly, WorkerPaths, Queues
  <1> QED BY <1>1, <1>2, <1>3, <1>4, <1>5

\* A statement that changes no table is judged by what it has read.
LEMMA SameRight ==
  ASSUME UNCHANGED <<tables, store>>, NEW q,
         req'[q] = req[q], as'[q] = as[q], stamp'[q] = stamp[q]
  PROVE  /\ \A c : Entitled(q, c)' <=> Entitled(q, c)
         /\ Trusted(q)' <=> Trusted(q)
         /\ Owed(q)' = Owed(q)
  <1> USE DEF tables, store
  <1>1. Op(q)' = Op(q) /\ RegistryOf(q)' = RegistryOf(q) /\ Kind(as[q])' = Kind(as[q])
    BY SameClient
  <1>2. Needed(Op(q))' = Needed(Op(q)) /\ Resource(Op(q))' = Resource(Op(q))
    BY <1>1 DEF Needed, Documented, Resource
  <1>3. ASSUME NEW c
        PROVE  Entitled(q, c)' <=> Entitled(q, c)
    <2> DEFINE at == IF Op(q) \in {"form", "decide"} THEN stamp[q] ELSE clock
    <2>1. at' = at
      BY <1>1
    <2>2. Granted(as[q], c, Needed(Op(q)), at)' <=> Granted(as[q], c, Needed(Op(q)), at)
      <3> HIDE DEF at
      <3> QED BY <1>2, <2>1 DEF Granted
    <2> QED BY <1>1, <1>2, <2>2 DEF Entitled
  <1>4. Trusted(q)' <=> Trusted(q)
    BY <1>1 DEF Trusted
  <1>5. \A c : Listed(q, c)' <=> Listed(q, c)
    BY <1>1 DEF Listed
  <1>6. Owed(q)' = Owed(q)
    BY <1>1, <1>3, <1>4, <1>5 DEF Owed
  <1> QED BY <1>3, <1>4, <1>6

\* Its moment is among those the history remembers.
LEMMA Judged ==
  ASSUME AccessTypes, Witness, UNCHANGED <<tables, store>>, NEW q \in Requests,
         req'[q] = req[q], as'[q] = as[q], stamp'[q] = stamp[q],
         pc[q] \notin {"new", "done"}, pc'[q] # "new"
  PROVE  /\ \A c \in Cases : Entitled(q, c) => c \in may'[q]
         /\ may[q] \subseteq may'[q]
         /\ must'[q] \subseteq must[q]
         /\ \A c \in must'[q] : Trusted(q) /\ Entitled(q, c) /\ (Op(q) \in Lists => Listed(q, c))
  <1>1. /\ \A c : Entitled(q, c)' <=> Entitled(q, c)
        /\ Owed(q)' = Owed(q)
    BY SameRight
  <1>2. /\ \A c \in Cases : Entitled(q, c)' => c \in may'[q]
        /\ may[q] \subseteq may'[q]
        /\ must'[q] \subseteq must[q]
        /\ must'[q] \subseteq Owed(q)'
    BY Witnessed
  <1>3. \A c \in Owed(q) : Trusted(q) /\ Entitled(q, c) /\ (Op(q) \in Lists => Listed(q, c))
    BY DEF Owed
  <1> QED BY <1>1, <1>2, <1>3

-----------------------------------------------------------------------------
(* One lemma for each action of a request. *)

\* What every action but the first may take for granted.
LEMMA Acting ==
  ASSUME AccessTypes, NEW q \in Requests, RequestFacts(q), pc[q] \notin {"new", "done"}
  PROVE  /\ req[q] \in Request /\ req[q] # None /\ req[q].case \in Cases
         /\ answer[q] = None /\ trusted[q]
         /\ trustZoneAllows(req[q].zone, Op(q), Kind(as[q]))
         /\ Op(q) \in Effects \cup Lists \cup {"read"}
         /\ RegistryOf(q) \in Registries
         /\ Op(q) \notin Lists => CaseOf[req[q].case].registry = RegistryOf(q)
         /\ req[q].audience \subseteq {"worker", "customer"}
  BY DEF AccessTypes, RequestFacts, Admitted, OnPath, Served, UnderWay, Request, Op, RegistryOf

\* The request is dispatched to whoever its credential makes it, if the zone lets it.
LEMMA DispatchKeeps ==
  ASSUME AccessTypes, NEW q \in Requests, RequestFacts(q), Dispatch(q), UNCHANGED tables, Witness
  PROVE  RequestFacts(q)'
  <1> DEFINE who == resolvePrincipal(req[q].who)
  <1>1. /\ pc[q] = "new" /\ req[q] # None /\ req'[q] = req[q] /\ as'[q] = who
        /\ pc'[q] \in {"look", "done"}
        /\ pc'[q] = "done" => answer'[q] = "absent"
        /\ pc'[q] = "look" => answer'[q] = None /\ trustZoneAllows(req[q].zone, Op(q), Kind(who))
    BY DEF Dispatch, At, AccessTypes
  <1>2. Op(q)' = Op(q) /\ RegistryOf(q)' = RegistryOf(q)
    BY <1>1 DEF Op, RegistryOf
  <1>3. answer'[q] \notin {"ok", "refused", "error"}
    BY <1>1, AnswersAssumption
  <1>4. pc'[q] = "look" => trusted'[q]
    <2>1. req[q].who \in Clients \cup {None}
      BY <1>1 DEF AccessTypes, Request
    <2>2. who \in active \/ (who \in Tokens /\ tokens[who] = 1) \/ who = None
      BY DEF resolvePrincipal
    <2>3. active \subseteq Workers \cup Customers \cup Categories /\ active' = active /\ tokens' = tokens
      BY DEF AccessTypes, tables
    <2>4. Kind(as[q])' = Kind(who)
      BY <1>1 DEF Kind
    <2>5. Trusted(q)'
      BY <1>1, <2>1, <2>2, <2>3, <2>4, Kinds, ClientsAssumption DEF Trusted, Clients, resolvePrincipal
    <2> QED BY <1>1, <2>5, Witnessed
  <1>5. Admitted(q)'
    <2>1. pc'[q] = "look" => trustZoneAllows(req[q].zone, Op(q), Kind(as[q]))'
      BY <1>1, <1>2 DEF trustZoneAllows, AnyPath, AnyKind, Kind
    <2> QED BY <1>1, <1>3, <1>4, <2>1 DEF Admitted, Served, UnderWay
  <1>6. OnPath(q)'
    BY <1>1, <1>2, <1>3 DEF RequestFacts, OnPath
  <1>7. Authorised(q)' /\ TokenSaw(q)' /\ GrantsSaw(q)' /\ Answered(q)'
    BY <1>1, <1>3 DEF Authorised, TokenSaw, GrantsSaw, Answered
  <1> QED BY <1>5, <1>6, <1>7 DEF RequestFacts

\* What a client asks for once the case is found is open to its kind; a token has been
\* shown whether the case is published.
LEMMA LookKeeps ==
  ASSUME AccessTypes, NEW q \in Requests, RequestFacts(q), Look(q), UNCHANGED tables, Witness
  PROVE  RequestFacts(q)'
  <1> DEFINE c == req[q].case
  <1>1. /\ pc[q] = "look" /\ Op(q) \notin Lists /\ RightKind(q)
        /\ pc'[q] = IF Op(q) = "open" THEN "act" ELSE "authorise"
        /\ seen'[q] = (c \in published)
        /\ req' = req /\ as' = as /\ stamp' = stamp /\ answer' = answer
        /\ UNCHANGED store
    BY DEF Look, At, Goto, Sees, AccessTypes
  <1>2. /\ req[q] \in Request /\ req[q] # None /\ c \in Cases
        /\ answer[q] = None /\ trusted[q]
        /\ trustZoneAllows(req[q].zone, Op(q), Kind(as[q]))
        /\ CaseOf[c].registry = RegistryOf(q)
        /\ Op(q) \in Effects \cup {"read"}
        /\ req[q].audience \subseteq {"worker", "customer"}
    BY <1>1, Acting
  <1>3. /\ Op(q)' = Op(q) /\ RegistryOf(q)' = RegistryOf(q) /\ Kind(as[q])' = Kind(as[q])
        /\ RightKind(q)' <=> RightKind(q)
        /\ KindMay(q)' <=> KindMay(q)
        /\ InScope(q)' <=> InScope(q)
        /\ trustZoneAllows(req[q].zone, Op(q), Kind(as[q]))' <=>
             trustZoneAllows(req[q].zone, Op(q), Kind(as[q]))
    BY <1>1, SameClient
  <1>4. /\ Entitled(q, c) => c \in may'[q]
        /\ c \in must'[q] => Entitled(q, c)
        /\ trusted'[q]
    BY <1>1, <1>2, Judged, Witnessed
  <1>5. answer'[q] = None /\ None \notin {"ok", "refused", "absent", "error"}
    BY <1>1, <1>2, AnswersAssumption
  <1>6. Admitted(q)'
    BY <1>1, <1>2, <1>3, <1>4, <1>5 DEF Admitted, Served
  <1>7. OnPath(q)'
    BY <1>1, <1>2, <1>3 DEF OnPath, Lists
  <1>8. Authorised(q)'
    <2>1. ASSUME Op(q) = "open"
          PROVE  Entitled(q, c) /\ KindMay(q)
      <3>1. Kind(as[q]) \in {"worker", "customer"}
        BY <1>1, <1>2, <2>1 DEF RightKind, FormPaths
      <3> QED BY <1>1, <1>2, <2>1, <3>1 DEF Entitled, KindMay, RightKind, FormPaths
    <2> QED BY <1>1, <1>3, <1>4, <1>5, <2>1 DEF Authorised
  <1>9. TokenSaw(q)'
    <2>1. ASSUME Kind(as[q]) = "token"
          PROVE  Entitled(q, c) <=>
                   InScope(q) /\ (Scope[as[q]].publishedOnly /\ Op(q) # "create" => c \in published)
      BY <1>1, <1>2, <2>1 DEF Entitled, InScope, RightKind
    <2> QED BY <1>1, <1>3, <1>4, <2>1 DEF TokenSaw
  <1>10. GrantsSaw(q)' /\ Answered(q)'
    BY <1>1, <1>5 DEF GrantsSaw, Answered
  <1> QED BY <1>6, <1>7, <1>8, <1>9, <1>10 DEF RequestFacts

\* Who is turned away at once had no right to the case.
LEMMA TurnAwayKeeps ==
  ASSUME AccessTypes, NEW q \in Requests, RequestFacts(q), TurnAway(q), UNCHANGED tables, Witness
  PROVE  RequestFacts(q)'
  <1> DEFINE c == req[q].case
  <1>1. /\ pc[q] = "look" /\ pc'[q] = "done"
        /\ answer'[q] = "absent" \/ (answer'[q] = "refused" /\ ~RightKind(q))
        /\ req' = req /\ as' = as /\ stamp' = stamp
        /\ UNCHANGED store
    BY DEF TurnAway, At, Finish, AccessTypes
  <1>2. /\ req[q] \in Request /\ req[q] # None /\ c \in Cases /\ trusted[q]
        /\ trustZoneAllows(req[q].zone, Op(q), Kind(as[q]))
        /\ Op(q) \in Effects \cup Lists \cup {"read"}
    BY <1>1, Acting
  <1>3. /\ Op(q)' = Op(q) /\ RegistryOf(q)' = RegistryOf(q)
        /\ trustZoneAllows(req[q].zone, Op(q), Kind(as[q]))' <=>
             trustZoneAllows(req[q].zone, Op(q), Kind(as[q]))
    BY <1>1, SameClient
  <1>4. trusted'[q] /\ (c \in must'[q] => Entitled(q, c))
    BY <1>1, <1>2, Judged, Witnessed
  <1>5. Admitted(q)'
    BY <1>1, <1>2, <1>3, <1>4 DEF Admitted
  <1>6. OnPath(q)'
    BY <1>1, <1>3 DEF RequestFacts, OnPath
  <1>7. Answered(q)'
    <2>1. Op(q) \notin Lists /\ ~RightKind(q) => ~Entitled(q, c)
      BY <1>2, WrongKind
    <2> QED BY <1>1, <1>3, <1>4, <2>1 DEF Answered
  <1>8. Authorised(q)' /\ TokenSaw(q)' /\ GrantsSaw(q)'
    BY <1>1 DEF Authorised, TokenSaw, GrantsSaw
  <1> QED BY <1>5, <1>6, <1>7, <1>8 DEF RequestFacts

\* What the handler's own check finds is a right, and what it does not find was none all along.
LEMMA CheckIsRight ==
  ASSUME AccessTypes, NEW q \in Requests, RequestFacts(q), pc[q] = "authorise", req[q] # None,
         Op(q) \in Effects \cup {"read"}, Op(q) # "open", RightKind(q),
         req[q].case \in Cases, CaseOf[req[q].case].registry = RegistryOf(q),
         req[q].audience \subseteq {"worker", "customer"}
  PROVE  /\ Allowed(q) => KindMay(q) /\ (Entitled(q, req[q].case) \/ req[q].case \in may[q])
         /\ ~Allowed(q) => ~Trusted(q) \/ ~Entitled(q, req[q].case) \/ req[q].case \notin must[q]
  <1> DEFINE c == req[q].case
             at == IF Op(q) \in {"form", "decide"} THEN stamp[q] ELSE clock
  <1>1. Kind(as[q]) \in {"worker", "customer", "token", "public"}
    BY Kinds
  <1>2. Needed(Op(q)) = {Permission(Op(q))} /\ Op(q) \notin {"mine", "unassigned", "pending"}
    BY DEF Needed, Documented, Permission, Effects
  <1>3. CASE Kind(as[q]) = "worker"
    <2>1. Allowed(q) <=> Granted(as[q], c, {Permission(Op(q))}, at)
      <3>1. Allowed(q) <=>
              workerCanAccessCategory(as[q], CaseOf[c].registry, CaseOf[c].category, Permission(Op(q)), at)
        BY <1>3 DEF Allowed, WorkerMay
      <3>2. as[q] \in Workers /\ at \in Nat
        BY <1>3, Kinds DEF AccessTypes
      <3> HIDE DEF at
      <3> QED BY <3>1, <3>2, PermissionIsGrant
    <2>2. Entitled(q, c) <=> Granted(as[q], c, {Permission(Op(q))}, at)
      BY <1>2, <1>3 DEF Entitled, RightKind
    <2> QED BY <1>3, <2>1, <2>2 DEF KindMay
  <1>4. CASE Kind(as[q]) = "customer"
    <2>1. Trusted(q) => as[q] \in active
      BY <1>4 DEF Trusted
    <2>2. Allowed(q) <=>
            /\ Op(q) \in {"create", "read", "form"}
            /\ Op(q) # "create" => as[q] \in active /\ <<c, as[q]>> \in parties
      BY <1>4 DEF Allowed, CustomerMay, customerOwnsCase
    <2>3. Entitled(q, c) <=>
            /\ Op(q) \in {"create", "read", "form"}
            /\ Op(q) # "create" => <<c, as[q]>> \in parties
      BY <1>2, <1>4 DEF Entitled, RightKind
    <2> QED BY <1>4, <2>1, <2>2, <2>3 DEF KindMay
  <1>5. CASE Kind(as[q]) = "token"
    <2> DEFINE t == as[q]
               shown == Scope[t].publishedOnly /\ Op(q) # "create" => seen[q]
    <2>1. Op(q) \in {"create", "operation", "transition", "read"}
      BY <1>5 DEF RightKind, WorkerOnly, WorkerPaths, FormPaths, Effects
    <2>2. Scope[t].category # None => Scope[t].category \in Categories
      BY <1>5, ScopeAssumption, Kinds
    <2>3. Scope[t].category # None =>
            (isWithin(CaseOf[c].category, Scope[t].category) <=> Below(CaseOf[c].category, Scope[t].category))
      BY <2>2, SameContainment, CasesAssumption
    <2>4. <<Resource(Op(q))[1], Resource(Op(q))[2]>> = Resource(Op(q))
      BY DEF Resource
    <2>5. tokenAllows(t, Resource(Op(q))[1], Resource(Op(q))[2], CaseOf[c].category) /\ Scope[t].registry = CaseOf[c].registry
            <=> InScope(q)
      BY <2>1, <2>3, <2>4 DEF tokenAllows, InScope
    <2>6. Allowed(q) => InScope(q) /\ shown
      BY <1>5, <2>1, <2>5 DEF Allowed, TokenMay, tokenCanAccess
    <2>7. InScope(q) /\ shown /\ (Scope[t].publishedOnly /\ Op(q) = "read" => c \in published) => Allowed(q)
      BY <1>5, <2>1, <2>5 DEF Allowed, TokenMay, tokenCanAccess
    <2>8. Entitled(q, c) => InScope(q) /\ (Scope[t].publishedOnly /\ Op(q) # "create" => c \in published)
      BY <1>5 DEF Entitled, InScope
    <2>9. /\ InScope(q) /\ shown => c \in may[q]
          /\ ~shown => c \notin must[q]
      BY <1>5 DEF RequestFacts, TokenSaw
    <2> QED BY <1>5, <2>1, <2>6, <2>7, <2>8, <2>9 DEF KindMay
  <1>6. CASE Kind(as[q]) = "public"
    BY <1>6 DEF Allowed, Entitled, KindMay, FormPaths
  <1> QED BY <1>1, <1>3, <1>4, <1>5, <1>6

LEMMA AuthoriseKeeps ==
  ASSUME AccessTypes, NEW q \in Requests, RequestFacts(q), Authorise(q), UNCHANGED tables, Witness
  PROVE  RequestFacts(q)'
  <1> DEFINE c == req[q].case
  <1>1. /\ pc[q] = "authorise"
        /\ \/ Allowed(q) /\ pc'[q] = "act" /\ answer'[q] = answer[q]
           \/ ~Allowed(q) /\ pc'[q] = "done" /\ answer'[q] = "refused"
        /\ req' = req /\ as' = as /\ stamp' = stamp
        /\ UNCHANGED store
    BY DEF Authorise, At, Goto, Finish, AccessTypes
  <1>2. /\ req[q] \in Request /\ req[q] # None /\ c \in Cases
        /\ answer[q] = None /\ trusted[q]
        /\ trustZoneAllows(req[q].zone, Op(q), Kind(as[q]))
        /\ Op(q) \in Effects \cup Lists \cup {"read"}
        /\ Op(q) \notin Lists => CaseOf[c].registry = RegistryOf(q)
        /\ req[q].audience \subseteq {"worker", "customer"}
    BY <1>1, Acting
  <1>3. /\ Op(q)' = Op(q) /\ RegistryOf(q)' = RegistryOf(q)
        /\ RightKind(q)' <=> RightKind(q)
        /\ KindMay(q)' <=> KindMay(q)
        /\ trustZoneAllows(req[q].zone, Op(q), Kind(as[q]))' <=>
             trustZoneAllows(req[q].zone, Op(q), Kind(as[q]))
    BY <1>1, SameClient
  <1>4. Op(q) \notin Lists /\ Op(q) # "open" /\ RightKind(q)
    BY <1>1 DEF RequestFacts, OnPath
  <1>5. /\ Entitled(q, c) \/ c \in may[q] => c \in may'[q]
        /\ c \in must'[q] => c \in must[q] /\ Trusted(q) /\ Entitled(q, c)
        /\ trusted'[q]
    BY <1>1, <1>2, Judged, Witnessed
  <1>6. /\ Allowed(q) => KindMay(q) /\ c \in may'[q]
        /\ ~Allowed(q) => c \notin must'[q]
    BY <1>1, <1>2, <1>4, <1>5, CheckIsRight
  <1>7. answer'[q] \in {None, "refused"} /\ answer'[q] # "ok"
    BY <1>1, <1>2, AnswersAssumption
  <1>8. Admitted(q)'
    BY <1>1, <1>2, <1>3, <1>5 DEF Admitted
  <1>9. OnPath(q)'
    BY <1>1, <1>2, <1>3, <1>4, <1>7 DEF OnPath
  <1>10. Authorised(q)'
    BY <1>1, <1>3, <1>6, <1>7 DEF Authorised
  <1>11. Answered(q)'
    BY <1>1, <1>2, <1>3, <1>6, <1>7, AnswersAssumption DEF Answered
  <1>12. TokenSaw(q)' /\ GrantsSaw(q)'
    BY <1>1 DEF TokenSaw, GrantsSaw
  <1> QED BY <1>8, <1>9, <1>10, <1>11, <1>12 DEF RequestFacts

\* The last statement of a request that is of a case: an effect that is kept, one that is
\* rolled back, or the case that is shown.
LEMMA ActKeeps ==
  ASSUME AccessTypes, NEW q \in Requests, RequestFacts(q), UNCHANGED tables, Witness,
         Commit(q) \/ RollBack(q) \/ GiveCase(q) \/ FindHandler(q) \/ InsertHandler(q)
  PROVE  RequestFacts(q)'
  <1> DEFINE c == req[q].case
  <1>1. /\ pc[q] \in {"act", "insert"} /\ Op(q) \notin Lists
        /\ req' = req /\ as' = as
        /\ pc'[q] \in {"insert", "done"}
        /\ pc'[q] = "insert" => Op(q) = "assign" /\ answer'[q] = answer[q]
        /\ pc'[q] = "done" => answer'[q] \in {"ok", "error"}
        /\ pc'[q] = "done" /\ Op(q) = "read" => given'[q] = {c}
    <2> USE DEF At, Goto, Finish, Respond, Sees, AccessTypes, Effects, Lists, Queues
    <2>1. CASE Commit(q)
      BY <2>1 DEF Commit
    <2>2. CASE RollBack(q)
      BY <2>2 DEF RollBack
    <2>3. CASE GiveCase(q)
      BY <2>3 DEF GiveCase
    <2>4. CASE FindHandler(q)
      BY <2>4 DEF FindHandler
    <2>5. CASE InsertHandler(q)
      BY <2>5 DEF InsertHandler, RequestFacts, OnPath
    <2> QED BY <2>1, <2>2, <2>3, <2>4, <2>5
  <1>2. /\ req[q] # None /\ answer[q] = None /\ trusted[q]
        /\ trustZoneAllows(req[q].zone, Op(q), Kind(as[q]))
        /\ CaseOf[c].registry = RegistryOf(q)
    BY <1>1, Acting
  <1>3. /\ Op(q)' = Op(q) /\ RegistryOf(q)' = RegistryOf(q)
        /\ RightKind(q)' <=> RightKind(q)
        /\ KindMay(q)' <=> KindMay(q)
        /\ trustZoneAllows(req[q].zone, Op(q), Kind(as[q]))' <=>
             trustZoneAllows(req[q].zone, Op(q), Kind(as[q]))
    BY <1>1, SameClient
  <1>4. RightKind(q) /\ c \in may[q] /\ KindMay(q)
    BY <1>1 DEF RequestFacts, OnPath, Authorised
  <1>5. trusted'[q] /\ c \in may'[q]
    BY <1>1, <1>2, <1>4, Witnessed
  <1>6. Admitted(q)'
    BY <1>1, <1>2, <1>3, <1>5 DEF Admitted
  <1>7. OnPath(q)'
    BY <1>1, <1>2, <1>3, <1>4 DEF OnPath
  <1>8. Authorised(q)'
    BY <1>1, <1>3, <1>4, <1>5 DEF Authorised
  <1>9. Answered(q)'
    BY <1>1, <1>2, <1>3, AnswersAssumption DEF Answered, Lists
  <1>10. TokenSaw(q)' /\ GrantsSaw(q)'
    BY <1>1 DEF TokenSaw, GrantsSaw
  <1> QED BY <1>6, <1>7, <1>8, <1>9, <1>10 DEF RequestFacts

\* The grants a queue is filtered by are those that say what the worker has a right to.
LEMMA LoadGrantsKeeps ==
  ASSUME AccessTypes, NEW q \in Requests, RequestFacts(q), LoadGrants(q), UNCHANGED tables, Witness
  PROVE  RequestFacts(q)'
  <1> DEFINE w == as[q]
             flags == Needed(Op(q))
             rows == {row \in WorkerGrants(w, RegistryOf(q), clock) : flags \subseteq row.rights}
  <1>1. /\ pc[q] = "look" /\ pc'[q] = "list" /\ Op(q) \in Lists /\ RightKind(q)
        /\ req' = req /\ as' = as /\ stamp' = stamp /\ answer' = answer
        /\ UNCHANGED store
        /\ seen'[q] = IF Op(q) \notin Queues THEN {} ELSE
             {row \in WorkerGrants(as[q], RegistryOf(q), clock) :
                /\ Op(q) = "unassigned" => "optedIn" \in row.rights
                /\ Op(q) = "pending" => "approve" \in row.rights}
    BY DEF LoadGrants, At, Goto, Sees, AccessTypes
  <1>2. /\ req[q] # None /\ answer[q] = None /\ trusted[q]
        /\ trustZoneAllows(req[q].zone, Op(q), Kind(as[q]))
        /\ RegistryOf(q) \in Registries
    BY <1>1, Acting
  <1>3. /\ Op(q)' = Op(q) /\ RegistryOf(q)' = RegistryOf(q)
        /\ RightKind(q)' <=> RightKind(q)
        /\ trustZoneAllows(req[q].zone, Op(q), Kind(as[q]))' <=>
             trustZoneAllows(req[q].zone, Op(q), Kind(as[q]))
    BY <1>1, SameClient
  <1>4. /\ \A c \in Cases : Entitled(q, c) => c \in may'[q]
        /\ \A c \in must'[q] : Entitled(q, c)
        /\ trusted'[q]
    BY <1>1, <1>2, Judged, Witnessed
  <1>5. answer'[q] = None /\ None \notin {"ok", "refused", "absent", "error"}
    BY <1>1, <1>2, AnswersAssumption
  <1>6. Admitted(q)'
    BY <1>1, <1>2, <1>3, <1>4, <1>5 DEF Admitted, Served
  <1>7. OnPath(q)'
    BY <1>1, <1>2, <1>3 DEF OnPath
  <1>8. GrantsSaw(q)'
    <2> SUFFICES ASSUME Op(q) \in Queues
                 PROVE  \A c \in Cases :
                          /\ CaseOf[c].registry = RegistryOf(q) /\ Within(c, seen'[q]) => c \in may'[q]
                          /\ c \in must'[q] => Within(c, seen'[q])
      BY <1>1, <1>3 DEF GrantsSaw, Within
    <2>1. Kind(w) = "worker" /\ Op(q) \notin {"mine", "open", "form", "decide"} /\ "read" \in flags
      BY <1>1 DEF RightKind, WorkerOnly, WorkerPaths, Queues, Needed, Documented
    <2>2. seen'[q] = rows
      <3>1. ASSUME NEW row \in WorkerGrants(w, RegistryOf(q), clock)
            PROVE  "read" \in row.rights
        <4>1. PICK k \in GrantsInForce(w, RegistryOf(q), clock) :
                /\ "read" \in grants[<<w, RegistryOf(q), k>>].rights
                /\ row = [code |-> k, rights |-> grants[<<w, RegistryOf(q), k>>].rights]
          BY DEF WorkerGrants
        <4> QED BY <4>1
      <3>2. CASE Op(q) = "authorized"
        <4>1. flags = {"read"}
          BY <3>2 DEF Needed, Documented
        <4> QED BY <1>1, <3>1, <3>2, <4>1
      <3>3. CASE Op(q) = "unassigned"
        <4>1. flags = {"read", "optedIn"}
          BY <3>3 DEF Needed, Documented
        <4> QED BY <1>1, <3>1, <3>3, <4>1
      <3>4. CASE Op(q) = "pending"
        <4>1. flags = {"read", "approve"}
          BY <3>4 DEF Needed, Documented
        <4> QED BY <1>1, <3>1, <3>4, <4>1
      <3> QED BY <3>2, <3>3, <3>4 DEF Queues
    <2>3. ASSUME NEW c \in Cases, CaseOf[c].registry = RegistryOf(q)
          PROVE  Within(c, seen'[q]) <=> Entitled(q, c)
      <3>1. Within(c, rows) <=> Granted(w, c, flags, clock)
        <4>1. w \in Workers /\ clock \in Nat
          BY <2>1, Kinds DEF AccessTypes
        <4> HIDE DEF flags
        <4> QED BY <2>1, <2>3, <4>1, RowsAreGrants
      <3>2. Entitled(q, c) <=> Granted(w, c, flags, clock)
        BY <1>1, <2>1, <2>3 DEF Entitled, FormPaths
      <3> QED BY <2>2, <3>1, <3>2
    <2>4. \A c : Entitled(q, c) => CaseOf[c].registry = RegistryOf(q)
      BY DEF Entitled
    <2>5. must'[q] \subseteq Cases
      BY WitnessTyped
    <2> QED BY <1>4, <2>3, <2>4, <2>5
  <1>9. Authorised(q)' /\ TokenSaw(q)' /\ Answered(q)'
    BY <1>1, <1>5 DEF Authorised, TokenSaw, Answered
  <1> QED BY <1>6, <1>7, <1>8, <1>9 DEF RequestFacts

\* What is listed is within them, and everything in the registry that is comes to the list.
LEMMA ListCasesKeeps ==
  ASSUME AccessTypes, NEW q \in Requests, RequestFacts(q), ListCases(q), UNCHANGED tables, Witness
  PROVE  RequestFacts(q)'
  <1> DEFINE here == {c \in cases : CaseOf[c].registry = RegistryOf(q)}
  <1>1. /\ pc[q] = "list" /\ pc'[q] = "done" /\ answer'[q] = "ok"
        /\ req' = req /\ as' = as /\ stamp' = stamp /\ UNCHANGED store
        /\ Op(q) \in Lists /\ RightKind(q)
    BY DEF ListCases, At, Finish, AccessTypes, RequestFacts, OnPath
  <1>2. /\ Op(q) = "authorized" => given'[q] = {c \in here : Within(c, seen[q])}
        /\ Op(q) = "unassigned" =>
             given'[q] = {c \in here : (\A w \in Workers : <<c, w>> \notin handlers) /\ Within(c, seen[q])}
        /\ Op(q) = "pending" => given'[q] = {c \in here \cap waiting : Within(c, seen[q])}
        /\ Op(q) = "mine" => given'[q] = {c \in here : <<c, as[q]>> \in parties}
    BY DEF ListCases, AccessTypes
  <1>3. /\ req[q] # None /\ trusted[q]
        /\ trustZoneAllows(req[q].zone, Op(q), Kind(as[q]))
    BY <1>1, Acting
  <1>4. /\ Op(q)' = Op(q) /\ RegistryOf(q)' = RegistryOf(q)
        /\ RightKind(q)' <=> RightKind(q)
        /\ trustZoneAllows(req[q].zone, Op(q), Kind(as[q]))' <=>
             trustZoneAllows(req[q].zone, Op(q), Kind(as[q]))
    BY <1>1, SameClient
  <1>5. /\ \A c \in Cases : Entitled(q, c) => c \in may'[q]
        /\ may[q] \subseteq may'[q]
        /\ must'[q] \subseteq must[q]
        /\ \A c \in must'[q] : Entitled(q, c) /\ Listed(q, c)
        /\ trusted'[q]
    BY <1>1, <1>3, Judged, Witnessed
  <1>6. must'[q] \subseteq here /\ here \subseteq Cases
    BY <1>5 DEF Listed, Entitled, AccessTypes
  <1>7. CASE Op(q) \in Queues
    <2>1. \A c \in Cases :
            /\ CaseOf[c].registry = RegistryOf(q) /\ Within(c, seen[q]) => c \in may[q]
            /\ c \in must[q] => Within(c, seen[q])
      BY <1>1, <1>7 DEF RequestFacts, GrantsSaw
    <2>2. given'[q] \subseteq may'[q]
      BY <1>2, <1>5, <1>6, <1>7, <2>1 DEF Queues
    <2>3. must'[q] \subseteq given'[q]
      BY <1>2, <1>5, <1>6, <1>7, <2>1 DEF Queues, Listed
    <2> QED BY <1>1, <1>3, <1>4, <1>5, <1>7, <2>2, <2>3, AnswersAssumption DEF RequestFacts,
         Admitted, OnPath, Authorised, TokenSaw, GrantsSaw, Answered, Lists, Queues
  <1>8. CASE Op(q) = "mine"
    <2>1. Kind(as[q]) = "customer"
      BY <1>1, <1>8 DEF RightKind
    <2>2. \A c : Entitled(q, c) <=> CaseOf[c].registry = RegistryOf(q) /\ <<c, as[q]>> \in parties
      BY <1>8, <2>1 DEF Entitled, FormPaths
    <2>3. given'[q] \subseteq may'[q] /\ must'[q] \subseteq given'[q]
      BY <1>2, <1>5, <1>6, <1>8, <2>2
    <2> QED BY <1>1, <1>3, <1>4, <1>5, <1>8, <2>3, AnswersAssumption DEF RequestFacts,
         Admitted, OnPath, Authorised, TokenSaw, GrantsSaw, Answered, Lists, Queues
  <1>9. CASE Op(q) = "assigned"
    BY <1>1, <1>3, <1>4, <1>5, <1>9, AnswersAssumption DEF RequestFacts,
      Admitted, OnPath, Authorised, TokenSaw, GrantsSaw, Answered, Lists, Queues
  <1> QED BY <1>1, <1>7, <1>8, <1>9 DEF Lists

-----------------------------------------------------------------------------
(* The invariant. *)

LEMMA AssignmentsKept ==
  ASSUME AccessTypes, AssignmentsRecorded, NEW q \in Requests, RequestFacts(q), Serve(q)
  PROVE  AssignmentsRecorded'
  <1>1. \A p \in Requests \ {q} :
          req'[p] = req[p] /\ pc'[p] = pc[p] /\ as'[p] = as[p] /\ answer'[p] = answer[p]
    BY OthersStand DEF Progress
  <1>2. pc[q] \notin {"new", "done"} => answer[q] = None /\ None \notin {"ok", "refused", "absent", "error"}
    BY AnswersAssumption DEF RequestFacts, Admitted
  <1>3. pc[q] = "new" => answer[q] = None
    BY DEF RequestFacts, Admitted
  <1> USE DEF AccessTypes, At, Goto, Finish, Respond, Sees, store
  <1>4. ASSUME Dispatch(q) \/ Look(q) \/ TurnAway(q) \/ Authorise(q) \/ Commit(q) \/ RollBack(q)
                 \/ GiveCase(q) \/ FindHandler(q) \/ LoadGrants(q) \/ ListCases(q)
        PROVE  AssignmentsRecorded'
    <2>1. /\ UNCHANGED <<handlers, audited>> /\ req' = req
          /\ pc[q] # "new" => pc'[q] # "new" /\ as'[q] = as[q]
          /\ Op(q) = "assign" => answer'[q] # "ok" /\ answer[q] # "ok"
      <3>1. CASE Dispatch(q)
        BY <1>3, <3>1, AnswersAssumption DEF Dispatch
      <3>2. CASE Look(q)
        BY <1>2, <3>2 DEF Look
      <3>3. CASE TurnAway(q)
        BY <1>2, <3>3 DEF TurnAway
      <3>4. CASE Authorise(q)
        BY <1>2, <3>4 DEF Authorise
      <3>5. CASE Commit(q)
        BY <1>2, <3>5 DEF Commit
      <3>6. CASE RollBack(q)
        BY <1>2, <3>6 DEF RollBack
      <3>7. CASE GiveCase(q)
        BY <1>2, <3>7 DEF GiveCase
      <3>8. CASE FindHandler(q)
        BY <1>2, <3>8 DEF FindHandler
      <3>9. CASE LoadGrants(q)
        BY <1>2, <3>9 DEF LoadGrants
      <3>10. CASE ListCases(q)
        BY <1>2, <3>10 DEF ListCases, RequestFacts, OnPath, Lists, Queues
      <3> QED BY <1>4, <3>1, <3>2, <3>3, <3>4, <3>5, <3>6, <3>7, <3>8, <3>9, <3>10
    <2> QED BY <1>1, <2>1, NoAssignment DEF Began
  \* The second of two inserts of one row is rolled back with its audit row.
  <1>5. ASSUME InsertHandler(q)
        PROVE  AssignmentsRecorded'
    <2> DEFINE late == ~seen[q] /\ HandlerRow(q) \in handlers
    <2>1. /\ pc[q] = "insert" /\ pc'[q] = "done" /\ req' = req /\ as' = as
          /\ handlers' = handlers \cup {HandlerRow(q)}
          /\ audited' = IF late THEN audited ELSE audited \cup {q}
          /\ answer'[q] = IF late THEN "error" ELSE "ok"
      BY <1>5 DEF InsertHandler, AuditedIfKept
    <2>2. Op(q) = "assign" /\ answer[q] = None /\ answer[q] # "ok"
      BY <1>2, <2>1 DEF RequestFacts, OnPath
    <2>3. \A p \in Requests : Op(p)' = Op(p) /\ HandlerRow(p)' = HandlerRow(p)
      BY <2>1 DEF Op, HandlerRow
    <2>4. audited' = {p \in Requests : Began(p)' /\ Op(p)' = "assign" /\ answer'[p] = "ok"}
      BY <1>1, <2>1, <2>2, <2>3 DEF AssignmentsRecorded, Began
    <2>5. handlers' = {HandlerRow(p)' : p \in audited'}
      BY <2>1, <2>3 DEF AssignmentsRecorded
    <2> QED BY <2>4, <2>5 DEF AssignmentsRecorded
  <1> QED BY <1>4, <1>5 DEF Serve

LEMMA AccessInitially ==
  AccessInit => AccessInv
  <1> SUFFICES ASSUME AccessInit
               PROVE  AccessInv
    OBVIOUS
  <1>1. AccessTypes
    BY CasesAssumption, AskedAssumption DEF AccessInit, AccessTypes
  <1>2. AssignmentsRecorded
    BY DEF AccessInit, AssignmentsRecorded, Began
  <1>3. ASSUME NEW q \in Requests
        PROVE  RequestFacts(q)
    <2>1. /\ pc[q] = "new" /\ answer[q] = None
          /\ req[q] # None /\ req[q].op \notin Lists => CaseOf[req[q].case].registry = req[q].registry
      BY <1>3, AskedAssumption DEF AccessInit
    <2> QED BY <2>1, AnswersAssumption DEF RequestFacts, Admitted, OnPath, Authorised, TokenSaw,
         GrantsSaw, Answered, Served, UnderWay, Op, RegistryOf
  <1> QED BY <1>1, <1>2, <1>3 DEF AccessInv, RequestFacts

LEMMA AccessPreserved ==
  AccessInv /\ [AccessNext]_accessVars => AccessInv'
  <1> SUFFICES ASSUME AccessInv, [AccessNext]_accessVars
               PROVE  AccessInv'
    OBVIOUS
  <1>1. AccessTypes /\ AssignmentsRecorded /\ \A q \in Requests : RequestFacts(q)
    BY DEF AccessInv, RequestFacts
  <1>2. ASSUME Administer, Witness
        PROVE  AccessInv'
    <2>1. AccessTypes'
      BY <1>1, <1>2, AdministerTyped
    <2>2. AssignmentsRecorded'
      BY <1>1, <1>2, NoAssignment DEF Administer, store, progress, Began
    <2>3. \A q \in Requests : RequestFacts(q)'
      BY <1>1, <1>2, Bystander DEF Administer, progress, Progress
    <2> QED BY <2>1, <2>2, <2>3 DEF AccessInv, RequestFacts
  <1>3. ASSUME NEW q \in Requests, Serve(q), UNCHANGED tables, Witness
        PROVE  AccessInv'
    <2>1. AccessTypes'
      BY <1>1, <1>3, ServeTyped DEF RequestFacts
    <2>2. AssignmentsRecorded'
      BY <1>1, <1>3, AssignmentsKept
    <2>3. RequestFacts(q)'
      BY <1>1, <1>3, DispatchKeeps, LookKeeps, TurnAwayKeeps, AuthoriseKeeps, ActKeeps,
         LoadGrantsKeeps, ListCasesKeeps DEF Serve
    <2>4. \A p \in Requests \ {q} : RequestFacts(p)'
      BY <1>1, <1>3, OthersStand, Bystander
    <2> QED BY <2>1, <2>2, <2>3, <2>4 DEF AccessInv, RequestFacts
  <1>4. ASSUME UNCHANGED accessVars
        PROVE  AccessInv'
    <2> USE <1>4 DEF accessVars, tables, store, progress, witness
    <2>1. AccessTypes'
      BY <1>1 DEF AccessTypes
    <2>2. AssignmentsRecorded'
      BY <1>1, NoAssignment DEF Began
    <2>3. ASSUME NEW q \in Requests
          PROVE  RequestFacts(q)'
      <3>1. /\ Op(q)' = Op(q) /\ RegistryOf(q)' = RegistryOf(q)
            /\ Kind(as[q])' = Kind(as[q])
            /\ RightKind(q)' <=> RightKind(q)
            /\ KindMay(q)' <=> KindMay(q)
            /\ InScope(q)' <=> InScope(q)
            /\ trustZoneAllows(req[q].zone, Op(q), Kind(as[q]))' <=>
                 trustZoneAllows(req[q].zone, Op(q), Kind(as[q]))
        BY SameClient
      <3> QED BY <1>1, <3>1 DEF RequestFacts, Admitted, Served, UnderWay, OnPath, Authorised,
           TokenSaw, GrantsSaw, Within, Answered
    <2> QED BY <2>1, <2>2, <2>3 DEF AccessInv, RequestFacts
  <1> QED BY <1>2, <1>3, <1>4 DEF AccessNext, Terminated

-----------------------------------------------------------------------------
(* The theorems. *)

\* AccessInv holds in every behaviour.
THEOREM AccessInvariance == AccessSpec => []AccessInv
  BY AccessInitially, AccessPreserved, PTL DEF AccessSpec

\* api/authz.ts, core/worker-queries.ts, services/forms.ts: for any clients, categories and
\* grants, whatever an administrator changes while a request runs: whoever is served had a
\* credential that was good, and a right to all that was done or shown, at some moment of it.
THEOREM EntitledOnly == AccessSpec => []OnlyEntitled
  <1>1. AccessInv => OnlyEntitled
    <2> SUFFICES ASSUME AccessInv, NEW q \in Requests, answer[q] = "ok"
                 PROVE  trusted[q] /\ (Op(q) # "assigned" => Given(q) \subseteq may[q])
      BY DEF OnlyEntitled
    <2>1. trusted[q] /\ Authorised(q) /\ Answered(q)
      BY DEF AccessInv, Admitted, Served
    <2> QED BY <2>1 DEF Authorised, Answered, Given, Lists, Queues
  <1> QED BY <1>1, AccessInvariance, PTL

\* core/authorization.ts, domain/categories.ts: for any clients, categories and grants, what
\* was a client's by right from the beginning of a request to its end is not refused to it,
\* and no list leaves it out.
THEOREM WithheldNothing == AccessSpec => []NothingWithheld
  <1>1. AccessInv => NothingWithheld
    BY DEF AccessInv, Answered, NothingWithheld
  <1> QED BY <1>1, AccessInvariance, PTL

\* api/trust-zones.ts: whatever is asked for, no command is carried out at a deployment whose
\* zone it does not belong to.
THEOREM ZonesKept == AccessSpec => []ZonesContain
  <1>1. AccessInv => ZonesContain
    <2> SUFFICES ASSUME AccessInv, NEW q \in Requests, answer[q] = "ok", Op(q) \in Effects
                 PROVE  /\ req[q].zone = "public" =>
                             Kind(as[q]) = "customer" /\ Op(q) \in {"create", "open", "form"}
                        /\ req[q].zone = "integration" =>
                             Kind(as[q]) = "token" /\ Op(q) \in {"create", "operation", "transition"}
                        /\ req[q].zone = "worker" => Kind(as[q]) = "worker"
      BY DEF ZonesContain
    <2>1. /\ trustZoneAllows(req[q].zone, Op(q), Kind(as[q]))
          /\ KindMay(q)
      BY DEF AccessInv, Admitted, Served, Authorised, Effects, Lists, Queues
    <2> QED BY <2>1 DEF trustZoneAllows, AnyPath, AnyKind, KindMay, Effects
  <1> QED BY <1>1, AccessInvariance, PTL

\* api/routes.ts, postAssign: for any number of concurrent assignments of one worker, every
\* row has an audited assignment that was answered 200, and every such answer its row.
THEOREM AssignmentsAudited == AccessSpec => []AssignmentsRecorded
  BY AccessInvariance, PTL DEF AccessInv
=============================================================================
