------------------------------- MODULE Access -------------------------------
(***************************************************************************)
(* Who may do what: the tables of grants, tokens and master data that an   *)
(* administrator edits, and the requests that are judged by them.  The     *)
(* tables are in the shared database and the cases in a registry's, so a   *)
(* request judges by several statements, and the tables change between     *)
(* them: api/server.ts (dispatch), api/authz.ts, core/authorization.ts,    *)
(* core/worker-queries.ts, api/tokens.ts, api/trust-zones.ts and the       *)
(* handlers of api/routes.ts and services/forms.ts.                        *)
(***************************************************************************)
EXTENDS Integers, FiniteSets, SequencesExt

CONSTANTS
  Workers, Customers, Tokens, Registries, Requests,
  Categories,   \* display codes: sequences of segments <<value, digits>>
  Roots,        \* registry -> the categoryRoots of its definition
  Cases, CaseOf, \* every case that may be opened -> [registry, category]
  Opened,       \* the cases that exist at the start
  Scope,        \* token -> [registry, allows, category, publishedOnly]
  GrantInputs,  \* bodies of POST /api/admin/authorizations: members of GrantBody
  Asked,        \* what the clients may ask for, all at once: functions from
                \* Requests to None or [op, registry, case, who, zone, audience]
  Horizon,      \* bound: the clock runs from 0 to Horizon
  MaxActs,      \* bound: changes an administrator makes
  None

Rights == {"read", "write", "transition", "approve", "optedIn"}
Clients == Workers \cup Customers \cup Tokens

\* What may be asked for, and of what kind a client is.
Effects == {"create", "open", "form", "operation", "transition", "publish", "assign", "decide"}
Queues == {"authorized", "unassigned", "pending"}
Lists == Queues \cup {"assigned", "mine"}
Zones == {"combined", "public", "worker", "integration"}

\* A bound of a grant is a text that Date.parse can read, kept as it came: it means one
\* moment, and it sorts somewhere among the texts it is compared with.  An ISO timestamp
\* sorts where its moment is; there is room for one other text on either side of it.  A
\* body may also hold a text that means nothing, and a bound left out is NULL.
TextOf(at) == 2 * at
Bound == [means: Int, sorts: Int]
Text == [means: Int \cup {None}, sorts: Int]
GrantBody == [rights: SUBSET Rights, from: Text \cup {None}, until: Text \cup {None}]
GrantRow == [rights: SUBSET Rights, from: Bound \cup {None}, until: Bound \cup {None}]
Request ==
  [op: Effects \cup Lists \cup {"read"}, registry: Registries, case: Cases,
   who: Clients \cup {None}, zone: Zones, audience: SUBSET {"worker", "customer"}]

ASSUME CasesAssumption ==
  /\ \A c \in Cases : CaseOf[c].registry \in Registries /\ CaseOf[c].category \in Categories
  /\ Opened \subseteq Cases
ASSUME CategoriesAssumption == Categories \subseteq Seq(Nat \X Nat)
ASSUME ScopeAssumption ==
  \A t \in Tokens : Scope[t].category # None => Scope[t].category \in Categories
ASSUME ClientsAssumption ==
  /\ Workers \cap Customers = {} /\ Tokens \cap (Workers \cup Customers \cup Categories) = {}
  /\ None \notin Clients \cup Categories
ASSUME GrantsAssumption ==
  GrantInputs \subseteq GrantBody /\ None \notin GrantRow \cup Text \cup Int
ASSUME HorizonAssumption == Horizon \in Nat /\ MaxActs \in Nat
\* A path to a case is of the case's registry; there is none to it in another.
ASSUME AskedAssumption ==
  /\ Asked \subseteq [Requests -> Request \cup {None}] /\ None \notin Request
  /\ \A asked \in Asked : \A q \in Requests :
       asked[q] # None /\ asked[q].op \notin Lists => CaseOf[asked[q].case].registry = asked[q].registry
ASSUME AnswersAssumption == None \notin {"ok", "refused", "absent", "error"}

VARIABLES
  clock, acts,
  active,     \* workers, customers and categories with active = 1
  grants,     \* worker_authorizations: <<worker, registry, category>> -> row
  tokens,     \* api_tokens: None, 1 (active) or 0
  cases, parties, published, waiting, handlers, \* the registries
  audited,    \* audit_log and outbox: the committed assignments, one by one
  req, pc, as, stamp, seen, given, answer, \* each request
  trusted,    \* history: its credential was good at some moment
  may, must   \* history: what the client had a right to, at some moment and all along

tables == <<clock, acts, active, grants, tokens>>
store == <<cases, parties, published, waiting, handlers, audited>>
progress == <<req, pc, as, stamp, seen, given, answer>>
witness == <<trusted, may, must>>
accessVars == <<tables, store, progress, witness>>

-----------------------------------------------------------------------------
(* The path it is asked at. *)

WorkerPaths == Queues \cup {"assigned"}
FormPaths == {"open", "form"}
CommandPaths == {"assign", "transition", "publish", "decide"}
WorkerOnly == WorkerPaths \cup {"assign", "publish", "decide"}

\* trustZoneAllows: every path here begins with /api/registries/.
AnyPath(zone, op, kind) ==
  /\ zone = "integration" => kind = "token"
  /\ zone = "worker" => kind = "worker"
  /\ zone = "public" => kind \in {"customer", "public"}
AnyKind(zone, op, kind) ==
  /\ zone = "integration" => op \notin WorkerPaths \cup FormPaths \cup {"decide"}
  /\ zone = "worker" => kind = "worker"
  /\ zone = "public" => op \notin WorkerPaths \cup CommandPaths
trustZoneAllows(zone, op, kind) == AnyPath(zone, op, kind) /\ AnyKind(zone, op, kind)

-----------------------------------------------------------------------------
(* core/authorization.ts and domain/categories.ts *)

\* Segments are padded to one width, so "105" and "0105" are one path.
RawPath(code) == code
normalizePath(code) == [i \in DOMAIN code |-> code[i][1]]

isWithin(code, root) == IsPrefix(normalizePath(root), normalizePath(code))

categoryBelongsToRegistry(g, code) == \E root \in Roots[g] : isWithin(code, root)

\* The WHERE clause of both queries over worker_authorizations: the text that is stored
\* and the ISO timestamp of `at` are compared as texts.
Begun(bound, at) == bound = None \/ bound.sorts <= TextOf(at)
NotOver(bound, at) == bound = None \/ TextOf(at) <= bound.sorts

AnyTime(w, g, at) ==
  {k \in Categories : grants[<<w, g, k>>] # None /\ {w, k} \subseteq active}
EitherBound(w, g, at) ==
  {k \in AnyTime(w, g, at) :
     Begun(grants[<<w, g, k>>].from, at) \/ NotOver(grants[<<w, g, k>>].until, at)}
GrantsInForce(w, g, at) ==
  {k \in AnyTime(w, g, at) :
     Begun(grants[<<w, g, k>>].from, at) /\ NotOver(grants[<<w, g, k>>].until, at)}

workerCanAccessCategory(w, g, code, permission, at) ==
  \E k \in GrantsInForce(w, g, at) :
    permission \in grants[<<w, g, k>>].rights /\ IsPrefix(normalizePath(k), normalizePath(code))

customerOwnsCase(k, c) == k \in active /\ <<c, k>> \in parties

\* workerGrants, then within(): the rows are in hand when the cases are read.
WorkerGrants(w, g, at) ==
  {[code |-> k, rights |-> grants[<<w, g, k>>].rights] :
     k \in {j \in GrantsInForce(w, g, at) : "read" \in grants[<<w, g, j>>].rights}}

Within(c, rows) == \E row \in rows : isWithin(CaseOf[c].category, row.code)

tokenAllows(t, method, resource, code) ==
  /\ <<method, resource>> \in Scope[t].allows
  /\ Scope[t].category # None => isWithin(code, Scope[t].category)

tokenCanAccess(t, method, resource, c, isPublished) ==
  /\ Scope[t].registry = CaseOf[c].registry
  /\ Scope[t].publishedOnly => isPublished
  /\ tokenAllows(t, method, resource, CaseOf[c].category)

-----------------------------------------------------------------------------
(* services/admin.ts, and master data that is deactivated in the database. *)

Act == acts < MaxActs /\ acts' = acts + 1

\* A flag that is left out of the body is granted, approval is not: the rights of
\* GrantInputs are those that result.  Both bounds must be read by Date.parse and be in
\* order by the moments they mean; what is stored is the text.  The upsert replaces a
\* row whole.
Readable(text) == text # None => text.means # None

InOrder(from, until) == None \notin {from, until} => from.means <= until.means

grantAuthorization(w, g, k, body) ==
  /\ Act
  /\ categoryBelongsToRegistry(g, k)
  /\ {w, k} \subseteq active
  /\ Readable(body.from) /\ Readable(body.until)
  /\ InOrder(body.from, body.until)
  /\ grants' = [grants EXCEPT ![<<w, g, k>>] = body]
  /\ UNCHANGED <<clock, active, tokens>>

mintToken(t) ==
  /\ Act
  /\ tokens[t] = None
  /\ tokens' = [tokens EXCEPT ![t] = 1]
  /\ UNCHANGED <<clock, active, grants>>

revokeToken(t) ==
  /\ Act
  /\ tokens[t] # None
  /\ tokens' = [tokens EXCEPT ![t] = 0]
  /\ UNCHANGED <<clock, active, grants>>

Deactivate ==
  /\ Act
  /\ \E x \in active : active' = active \ {x}
  /\ UNCHANGED <<clock, grants, tokens>>

Tick ==
  /\ clock < Horizon
  /\ clock' = clock + 1
  /\ UNCHANGED <<acts, active, grants, tokens>>

Administer ==
  /\ \/ \E w \in Workers, g \in Registries, k \in Categories, body \in GrantInputs :
          grantAuthorization(w, g, k, body)
     \/ \E t \in Tokens : mintToken(t) \/ revokeToken(t)
     \/ Deactivate
     \/ Tick
  /\ UNCHANGED <<store, progress>>

-----------------------------------------------------------------------------
(* A request. *)

Kind(who) ==
  CASE who \in Workers -> "worker" [] who \in Customers -> "customer"
    [] who \in Tokens -> "token" [] OTHER -> "public"

\* resolvePrincipal: a credential that is no longer good is an anonymous one.
resolvePrincipal(who) ==
  IF who \in active \/ (who \in Tokens /\ tokens[who] = 1) THEN who ELSE None

At(q, place) == pc[q] = place
Op(q) == req[q].op
RegistryOf(q) == req[q].registry

Finish(q, told) ==
  /\ pc' = [pc EXCEPT ![q] = "done"]
  /\ answer' = [answer EXCEPT ![q] = told]
  /\ UNCHANGED <<req, as, stamp>>

Goto(q, place) ==
  /\ pc' = [pc EXCEPT ![q] = place]
  /\ UNCHANGED <<req, as, stamp, given, answer>>

Sees(q, what) == seen' = [seen EXCEPT ![q] = what]

\* dispatch, and the handler up to its first statement; `now` of a form is taken here.
Dispatch(q) ==
  /\ At(q, "new") /\ req[q] # None
  /\ LET who == resolvePrincipal(req[q].who)
         open == trustZoneAllows(req[q].zone, Op(q), Kind(who)) IN
     /\ as' = [as EXCEPT ![q] = who]
     /\ stamp' = [stamp EXCEPT ![q] = clock]
     /\ pc' = [pc EXCEPT ![q] = IF open THEN "look" ELSE "done"]
     /\ answer' = [answer EXCEPT ![q] = IF open THEN None ELSE "absent"]
  /\ UNCHANGED <<req, seen, given, store>>

\* The checks of the kind of principal that come before any other statement: a form's
\* audience is worker, customer or both.
RightKind(q) ==
  LET kind == Kind(as[q]) IN
  /\ Op(q) \in WorkerOnly => kind = "worker"
  /\ Op(q) = "mine" => kind = "customer"
  /\ Op(q) \in FormPaths => kind \in req[q].audience

\* The case of the path, or of the body.  A new case needs a category of the
\* registry; nothing but an active one is in the table.
Known(q) ==
  LET c == req[q].case
      code == CaseOf[c].category IN
  CASE Op(q) \in {"create", "open"} ->
         code \in active /\ categoryBelongsToRegistry(RegistryOf(q), code)
    [] Op(q) = "decide" -> c \in waiting
    [] OTHER -> c \in cases

Look(q) ==
  /\ At(q, "look")
  /\ Op(q) \notin Lists
  /\ RightKind(q) /\ Known(q)
  /\ Sees(q, req[q].case \in published)
  /\ Goto(q, IF Op(q) = "open" THEN "act" ELSE "authorise")
  /\ UNCHANGED store

TurnAway(q) ==
  /\ At(q, "look")
  /\ \/ ~RightKind(q) /\ Finish(q, "refused")
     \/ RightKind(q) /\ Op(q) \notin Lists /\ ~Known(q) /\ Finish(q, "absent")
  /\ UNCHANGED <<seen, given, store>>

\* canReadCase, canWriteCase, canTransitionCase, and what the other handlers ask.
Permission(op) ==
  CASE op \in {"create", "form", "operation", "assign"} -> "write"
    [] op \in {"transition", "publish"} -> "transition"
    [] op = "decide" -> "approve"
    [] OTHER -> "read"

\* The method is GET for a read and POST for the rest.
Resource(op) ==
  CASE op = "read" -> <<"GET", "cases">>
    [] op = "create" -> <<"POST", "cases">>
    [] op = "operation" -> <<"POST", "operations">>
    [] OTHER -> <<"POST", "transition">>

WorkerMay(q, c, at) ==
  workerCanAccessCategory(as[q], RegistryOf(q), CaseOf[c].category, Permission(Op(q)), at)

CustomerMay(q, c) ==
  CASE Op(q) = "create" -> TRUE
    [] Op(q) \in {"read", "form"} -> customerOwnsCase(as[q], c)
    [] OTHER -> FALSE

TokenMay(q, c) ==
  LET t == as[q]
      r == Resource(Op(q)) IN
  CASE Op(q) = "create" -> Scope[t].registry = RegistryOf(q) /\ tokenAllows(t, r[1], r[2], CaseOf[c].category)
    [] Op(q) = "read"   -> /\ Scope[t].publishedOnly => c \in published
                           /\ tokenCanAccess(t, r[1], r[2], c, seen[q])
    [] OTHER            -> tokenCanAccess(t, r[1], r[2], c, seen[q])

Allowed(q) ==
  LET c == req[q].case IN
  CASE Kind(as[q]) = "worker"   -> WorkerMay(q, c, IF Op(q) \in {"form", "decide"} THEN stamp[q] ELSE clock)
    [] Kind(as[q]) = "customer" -> CustomerMay(q, c)
    [] Kind(as[q]) = "token"    -> TokenMay(q, c)
    [] OTHER                    -> Op(q) = "read" /\ c \in published

Authorise(q) ==
  /\ At(q, "authorise")
  /\ IF Allowed(q)
       THEN Goto(q, "act")
       ELSE Finish(q, "refused") /\ UNCHANGED given
  /\ UNCHANGED <<seen, store>>

Respond(q, told) == Finish(q, told) /\ UNCHANGED given

\* The transaction of a command; CaseCommands says what it does to the case.
Commit(q) ==
  LET c == req[q].case IN
  /\ At(q, "act")
  /\ Op(q) \in Effects \ {"assign"}
  /\ CASE Op(q) \in {"create", "open"} ->
            /\ cases' = cases \cup {c}
            /\ \E S \in SUBSET Customers :
                 /\ Kind(as[q]) = "customer" => S = {as[q]}
                 /\ Kind(as[q]) = "worker" /\ Op(q) = "open" => S = {}
                 /\ parties' = parties \cup {<<c, k>> : k \in S}
            /\ UNCHANGED <<published, waiting>>
       [] Op(q) = "publish" ->
            /\ published' \in {published \cup {c}, published \ {c}}
            /\ UNCHANGED <<cases, parties, waiting>>
       [] Op(q) = "form" -> \* a customer's, on a form that requires approval
            /\ waiting' \in {waiting} \cup (IF Kind(as[q]) = "customer" THEN {waiting \cup {c}} ELSE {})
            /\ UNCHANGED <<cases, parties, published>>
       [] Op(q) = "decide" ->
            /\ c \in waiting
            /\ waiting' = waiting \ {c}
            /\ UNCHANGED <<cases, parties, published>>
       [] OTHER -> UNCHANGED <<cases, parties, published, waiting>>
  /\ Respond(q, "ok")
  /\ UNCHANGED <<seen, handlers, audited>>

\* A command that is invalid, in conflict with another or a deadlock's victim.
RollBack(q) ==
  /\ At(q, "act")
  /\ Op(q) \in Effects
  /\ Respond(q, "error")
  /\ UNCHANGED <<seen, store>>

\* getCase: CaseReads says what the answer holds.
GiveCase(q) ==
  /\ At(q, "act")
  /\ Op(q) = "read"
  /\ given' = [given EXCEPT ![q] = {req[q].case}]
  /\ Finish(q, "ok")
  /\ UNCHANGED <<seen, store>>

\* postAssign on SQL Server: INSERT ... WHERE NOT EXISTS looks for the row and then
\* inserts it; nothing keeps another transaction from inserting it in between.
HandlerRow(q) == <<req[q].case, as[q]>>

FindHandler(q) ==
  /\ At(q, "act")
  /\ Op(q) = "assign"
  /\ Sees(q, HandlerRow(q) \in handlers)
  /\ Goto(q, "insert")
  /\ UNCHANGED store

\* The insert, the audit row and the outbox row are one transaction; a second row
\* of one key is refused, and the transaction with it.
AuditedAnyway(q) == audited' = audited \cup {q}
AuditedIfKept(q) ==
  audited' = IF ~seen[q] /\ HandlerRow(q) \in handlers THEN audited ELSE audited \cup {q}

InsertHandler(q) ==
  /\ At(q, "insert")
  /\ handlers' = handlers \cup {HandlerRow(q)}
  /\ AuditedIfKept(q)
  /\ Respond(q, IF ~seen[q] /\ HandlerRow(q) \in handlers THEN "error" ELSE "ok")
  /\ UNCHANGED <<seen, cases, parties, published, waiting>>

\* getWorkerCases, getWorkerPending, getMyCases: the grants are read from the shared
\* database, and filtered, before the cases are read from the registry's.
LoadGrants(q) ==
  /\ At(q, "look")
  /\ Op(q) \in Lists
  /\ RightKind(q)
  /\ Sees(q, IF Op(q) \notin Queues THEN {} ELSE
       {row \in WorkerGrants(as[q], RegistryOf(q), clock) :
          /\ Op(q) = "unassigned" => "optedIn" \in row.rights
          /\ Op(q) = "pending" => "approve" \in row.rights})
  /\ Goto(q, "list")
  /\ UNCHANGED store

ListCases(q) ==
  LET here == {c \in cases : CaseOf[c].registry = RegistryOf(q)}
      unassigned == {c \in here : \A w \in Workers : <<c, w>> \notin handlers} IN
  /\ At(q, "list")
  /\ given' = [given EXCEPT ![q] =
       CASE Op(q) = "authorized" -> {c \in here : Within(c, seen[q])}
         [] Op(q) = "unassigned" -> {c \in unassigned : Within(c, seen[q])}
         [] Op(q) = "pending"    -> {c \in here \cap waiting : Within(c, seen[q])}
         [] Op(q) = "assigned"   -> {c \in here : <<c, as[q]>> \in handlers}
         [] OTHER                -> {c \in here : <<c, as[q]>> \in parties}]
  /\ Finish(q, "ok")
  /\ UNCHANGED <<seen, store>>

-----------------------------------------------------------------------------

AccessInit ==
  /\ clock = 0
  /\ acts = 0
  /\ active = Workers \cup Customers \cup Categories
  /\ grants = [key \in Workers \X Registries \X Categories |-> None]
  /\ tokens = [t \in Tokens |-> None]
  /\ cases = Opened
  /\ parties \in {Opened \X {k} : k \in Customers}
  /\ published \in {{}, Opened}
  /\ waiting = Opened
  /\ handlers = {}
  /\ audited = {}
  /\ req \in Asked
  /\ pc = [q \in Requests |-> "new"]
  /\ as = [q \in Requests |-> None]
  /\ stamp = [q \in Requests |-> 0]
  /\ seen = [q \in Requests |-> None]
  /\ given = [q \in Requests |-> {}]
  /\ answer = [q \in Requests |-> None]
  /\ trusted = [q \in Requests |-> FALSE]
  /\ may = [q \in Requests |-> {}]
  /\ must = [q \in Requests |-> {}]

Serve(q) ==
  \/ Dispatch(q)
  \/ Look(q)
  \/ TurnAway(q)
  \/ Authorise(q)
  \/ Commit(q)
  \/ RollBack(q)
  \/ GiveCase(q)
  \/ FindHandler(q)
  \/ InsertHandler(q)
  \/ LoadGrants(q)
  \/ ListCases(q)

-----------------------------------------------------------------------------
(* What the clients have a right to, stated once and for every path.  These are     *)
(* not the program's definitions: categories are compared level by level, a grant   *)
(* is one row with every flag the request needs, the flags are those the            *)
(* documentation names, and time is now.  In three places the program is known to   *)
(* differ; there, and only there, they say what the program does, beside what was   *)
(* promised.                                                                        *)

Below(code, root) ==
  /\ Len(root) <= Len(code)
  /\ \A i \in 1 .. Len(root) : code[i][1] = root[i][1]

\* The moments a grant was given for (USER_STORIES.md 379-381).
Meant(row, at) ==
  /\ row.from # None => row.from.means <= at
  /\ row.until # None => at <= row.until.means

InIsoForm(row) ==
  \A bound \in {row.from, row.until} : bound # None => bound.sorts = TextOf(bound.means)

\* First place: a row with a bound in another form holds while the present lies between
\* the two texts, whatever they mean.
Held(row, at) ==
  IF InIsoForm(row) THEN Meant(row, at)
  ELSE /\ row.from # None => row.from.sorts <= TextOf(at)
       /\ row.until # None => TextOf(at) <= row.until.sorts

\* The flags a worker's grant must have, by USER_STORIES.md 113-246 and the comments of
\* routes.ts 80-81, authz.ts and worker-queries.ts; where they say no more than that the
\* case is an authorized one, what changes it takes "write".
Documented(op) ==
  CASE op \in {"create", "open", "form", "operation", "assign", "publish"} -> {"write"}
    [] op = "transition" -> {"transition"}
    [] op = "decide"     -> {"approve"}
    [] op = "unassigned" -> {"read", "optedIn"}
    [] op = "pending"    -> {"read", "approve"}
    [] OTHER             -> {"read"}

\* Second place: routes.ts 454 asks for another flag to publish and to withdraw a case
\* than "write permission" (USER_STORIES.md 229 and 241).
Needed(op) == IF op = "publish" THEN {"transition"} ELSE Documented(op)

Granted(w, c, flags, at) ==
  \E k \in Categories :
    LET row == grants[<<w, CaseOf[c].registry, k>>] IN
    /\ row # None
    /\ flags \subseteq row.rights
    /\ Held(row, at)
    /\ w \in active /\ k \in active
    /\ Below(CaseOf[c].category, k)

\* Who the client is and what it may have are two questions, asked by two statements.
Trusted(q) ==
  CASE Kind(as[q]) \in {"worker", "customer"} -> as[q] \in active
    [] Kind(as[q]) = "token"                  -> tokens[as[q]] = 1
    [] OTHER                                  -> TRUE

\* Third place: forms.ts 132-153 asks no grant of a worker who opens a case by a form,
\* against routes.ts 80-81, "workers need write on the category".
Entitled(q, c) ==
  LET who == as[q]
      op == Op(q)
      \* a form and a decision are judged by the time they began
      at == IF op \in {"form", "decide"} THEN stamp[q] ELSE clock IN
  /\ CaseOf[c].registry = RegistryOf(q)
  /\ op \in FormPaths => Kind(who) \in req[q].audience
  /\ CASE Kind(who) = "worker" ->
            op # "mine" /\ (op = "open" \/ Granted(who, c, Needed(op), at))
       [] Kind(who) = "customer" ->
            /\ op \in {"create", "open", "form", "read", "mine"}
            /\ op \in {"form", "read", "mine"} => <<c, who>> \in parties
       [] Kind(who) = "token" ->
            /\ op \in {"create", "read", "operation", "transition"}
            /\ Scope[who].registry = CaseOf[c].registry
            /\ Resource(op) \in Scope[who].allows
            /\ Scope[who].category # None => Below(CaseOf[c].category, Scope[who].category)
            /\ Scope[who].publishedOnly /\ op # "create" => c \in published
       [] OTHER -> op = "read" /\ c \in published

\* What a complete list holds.
Listed(q, c) ==
  /\ c \in cases
  /\ Op(q) = "unassigned" => \A w \in Workers : <<c, w>> \notin handlers
  /\ Op(q) = "pending" => c \in waiting

Owed(q) ==
  {c \in Cases : Trusted(q) /\ Entitled(q, c) /\ (Op(q) \in Lists => Listed(q, c))}

Began(q) == pc[q] # "new"

Witness ==
  /\ trusted' = [q \in Requests |->
       trusted[q] \/ (Began(q)' /\ pc[q] # "done" /\ Trusted(q)')]
  /\ may' = [q \in Requests |-> IF Began(q)' /\ pc[q] # "done"
       THEN may[q] \cup {c \in Cases : Entitled(q, c)'} ELSE may[q]]
  /\ must' = [q \in Requests |-> IF Began(q)' /\ pc[q] # "done"
       THEN IF pc[q] = "new" THEN Owed(q)' ELSE must[q] \cap Owed(q)'
       ELSE must[q]]

Terminated ==
  /\ \A q \in Requests : req[q] = None \/ At(q, "done")
  /\ UNCHANGED accessVars

AccessNext ==
  \/ (Administer \/ \E q \in Requests : Serve(q) /\ UNCHANGED tables) /\ Witness
  \/ Terminated

AccessSpec == AccessInit /\ [][AccessNext]_accessVars

-----------------------------------------------------------------------------

Given(q) == IF Op(q) \in Lists \cup {"read"} THEN given[q] ELSE {req[q].case}

\* authz.ts, worker-queries.ts, forms.ts: a grant that ends, a token that is revoked
\* and an account that is closed stop every request that begins afterwards.  The credential
\* of a request that does or shows something was good at some moment while it ran, and so,
\* maybe at another, was the client's right to it.  The queue of cases assigned to a
\* worker is left out of the second part: assignedCases reads no grant.  Of a publication,
\* of a case opened by a form and of a grant with a bound that is not an ISO timestamp
\* this says only what the program asks for (Needed, Entitled, Held).
OnlyEntitled ==
  \A q \in Requests : answer[q] = "ok" =>
    trusted[q] /\ (Op(q) # "assigned" => Given(q) \subseteq may[q])

\* The same from the other side: nobody is refused a case that was theirs all along,
\* and no such case is missing from a list, whichever of the two implementations of
\* category containment the path uses; with the same three exceptions.
NothingWithheld ==
  \A q \in Requests :
    /\ answer[q] = "refused" /\ Op(q) \notin Lists => req[q].case \notin must[q]
    /\ answer[q] = "ok" /\ Op(q) \in Queues \cup {"mine"} => must[q] \subseteq given[q]

\* trust-zones.ts 5-9: of the commands, only a customer's own reach a public
\* deployment, only tokens act through an integration deployment and only workers
\* through a worker deployment.
ZonesContain ==
  \A q \in Requests : answer[q] = "ok" /\ Op(q) \in Effects =>
    CASE req[q].zone = "public"      -> Kind(as[q]) = "customer" /\ Op(q) \in {"create", "open", "form"}
      [] req[q].zone = "integration" -> Kind(as[q]) = "token" /\ Op(q) \in {"create", "operation", "transition"}
      [] req[q].zone = "worker"      -> Kind(as[q]) = "worker"
      [] OTHER                       -> TRUE

\* routes.ts, postAssign: two assignments of one worker may race to insert one row.
\* The one that fails leaves nothing behind; every row has an audited assignment that
\* was answered 200, and every such answer has its row.
AssignmentsRecorded ==
  /\ audited = {q \in Requests : Began(q) /\ Op(q) = "assign" /\ answer[q] = "ok"}
  /\ handlers = {HandlerRow(q) : q \in audited}

-----------------------------------------------------------------------------
(***************************************************************************)
(* The inductive invariant of AccessProofs: how far a request has come     *)
(* says which checks it has passed, and what it has seen of the tables is  *)
(* what its client had a right to then.                                    *)
(***************************************************************************)
AccessTypes ==
  /\ clock \in Nat /\ acts \in Nat
  /\ active \subseteq Workers \cup Customers \cup Categories
  /\ grants \in [Workers \X Registries \X Categories -> GrantRow \cup {None}]
  /\ DOMAIN tokens = Tokens
  /\ cases \subseteq Cases /\ waiting \subseteq Cases /\ audited \subseteq Requests
  /\ req \in [Requests -> Request \cup {None}]
  /\ pc \in [Requests -> {"new", "look", "authorise", "act", "insert", "list", "done"}]
  /\ as \in [Requests -> Clients \cup {None}]
  /\ stamp \in [Requests -> Nat]
  /\ DOMAIN seen = Requests
  /\ given \in [Requests -> SUBSET Cases]
  /\ answer \in [Requests -> {"ok", "refused", "absent", "error", None}]
  /\ trusted \in [Requests -> BOOLEAN]
  /\ may \in [Requests -> SUBSET Cases] /\ must \in [Requests -> SUBSET Cases]

UnderWay(q) == pc[q] \notin {"new", "done"}
Served(q) == UnderWay(q) \/ answer[q] \in {"ok", "refused", "error"}

\* Nobody is served whom the zone keeps out, or whose credential was never good.
Admitted(q) ==
  /\ pc[q] # "new" => req[q] # None
  /\ pc[q] # "done" => answer[q] = None
  /\ Served(q) => trusted[q] /\ trustZoneAllows(req[q].zone, Op(q), Kind(as[q]))

\* Where each operation goes.
OnPath(q) ==
  /\ req[q] # None /\ Op(q) \notin Lists => CaseOf[req[q].case].registry = RegistryOf(q)
  /\ pc[q] = "authorise" => Op(q) \notin Lists \cup {"open"}
  /\ pc[q] = "act" => Op(q) \notin Lists
  /\ pc[q] = "insert" => Op(q) = "assign"
  /\ pc[q] = "list" => Op(q) \in Lists
  /\ pc[q] \in {"authorise", "act", "insert", "list"} \/ answer[q] = "ok" => RightKind(q)

\* What no moment of the tables lets a client of this kind do.
KindMay(q) ==
  LET kind == Kind(as[q]) IN
  /\ kind = "customer" => Op(q) \in {"create", "open", "form", "read"}
  /\ kind = "token" => Op(q) \in {"create", "operation", "transition", "read"}
  /\ kind = "public" => Op(q) = "read"

Authorised(q) ==
  (pc[q] \in {"act", "insert"} \/ answer[q] = "ok") /\ Op(q) \notin Lists =>
    req[q].case \in may[q] /\ KindMay(q)

\* The part of a token's scope that does not change, and the part it saw.
InScope(q) ==
  LET t == as[q]
      c == req[q].case IN
  /\ Scope[t].registry = CaseOf[c].registry
  /\ Resource(Op(q)) \in Scope[t].allows
  /\ Scope[t].category # None => Below(CaseOf[c].category, Scope[t].category)
  /\ Op(q) \in {"create", "operation", "transition", "read"}

TokenSaw(q) ==
  pc[q] = "authorise" /\ Kind(as[q]) = "token" =>
    /\ InScope(q) /\ (Scope[as[q]].publishedOnly /\ Op(q) # "create" => seen[q]) =>
         req[q].case \in may[q]
    /\ Scope[as[q]].publishedOnly /\ Op(q) # "create" /\ ~seen[q] => req[q].case \notin must[q]

\* The grants in hand are those that say which cases the worker has a right to.
GrantsSaw(q) ==
  pc[q] = "list" /\ Op(q) \in Queues =>
    \A c \in Cases :
      /\ CaseOf[c].registry = RegistryOf(q) /\ Within(c, seen[q]) => c \in may[q]
      /\ c \in must[q] => Within(c, seen[q])

Answered(q) ==
  /\ answer[q] = "ok" /\ Op(q) \in Lists \ {"assigned"} => given[q] \subseteq may[q]
  /\ answer[q] = "ok" /\ Op(q) = "read" => given[q] = {req[q].case}
  /\ answer[q] = "refused" /\ Op(q) \notin Lists => req[q].case \notin must[q]
  /\ answer[q] = "ok" /\ Op(q) \in Queues \cup {"mine"} => must[q] \subseteq given[q]

AccessInv ==
  /\ AccessTypes /\ AssignmentsRecorded
  /\ \A q \in Requests :
       /\ Admitted(q) /\ OnPath(q) /\ Authorised(q)
       /\ TokenSaw(q) /\ GrantsSaw(q) /\ Answered(q)
=============================================================================
