----------------------------- MODULE CaseReads ------------------------------
(***************************************************************************)
(* The requests that only read a registry, and the scheduled export, as    *)
(* the statements they run beside the commands of CaseCommands: getCase    *)
(* and the published search of api/routes.ts over core/queries.ts, and     *)
(* services/exports.ts.  None of them opens a transaction, so between any  *)
(* two of their statements any number of commands may commit.              *)
(***************************************************************************)
EXTENDS CaseSafety, Sequences

CONSTANTS
  Readers,    \* read requests and export jobs; each runs once
  Home,       \* the registry whose database CaseCommands models
  ExportOrder \* Platform.allRegistries(), in the order an export visits them

ExportedRegistries == {ExportOrder[i] : i \in DOMAIN ExportOrder}

\* The registries are the entries of a map, each once.
ASSUME HomeAssumption == Home \in ExportedRegistries
ASSUME ExportOrderAssumption ==
  /\ ExportOrder \in Seq(ExportedRegistries)
  /\ \A i, j \in DOMAIN ExportOrder : ExportOrder[i] = ExportOrder[j] => i = j

VARIABLES
  goal,   \* what each reader was asked for
  todo,   \* the statements it has still to run
  got,    \* what its statements have returned
  told,   \* what its client was told
  at,     \* export: the position in ExportOrder
  runs,   \* export_runs.status of the job's run for each registry
  files,  \* the blobs of the job for each registry
  results, \* exportAllRegistries: what it has collected
  public  \* history: what has been public since the reader began

progress == <<goal, todo, got, told, at, runs, files, results>>
readVars == <<vars, progress, public>>

Kinds == {"internal", "public", "token", "search", "export"}
Goal == [kind: Kinds, case: CaseKeys]
Wants(q, kinds) == goal[q] # None /\ goal[q].kind \in kinds

NoRows == [c \in CaseKeys |-> None]
Nothing == [rows |-> NoRows, pages |-> NoRows, ops |-> {}, shown |-> {}]

-----------------------------------------------------------------------------
(* core/queries.ts and tableToCsv: one SELECT each, over the cases in S. *)

CaseRows(S) == [c \in CaseKeys |-> IF c \in S THEN cases[c] ELSE None]
HistoryRows(S) == {o \in operations : o.case \in S}
PublishedRows(S) == [c \in CaseKeys |-> IF c \in S THEN projection[c] ELSE None]

\* getPublishedHistory; the join of searchPublishedCases with published_cases removes
\* nothing more (ProjectionConsistent).
AllHistory(S) == {<<o.case, o.id>> : o \in HistoryRows(S)}
PublishedHistory(S) == {s \in shownOps : s[1] \in S}

-----------------------------------------------------------------------------
(* The handlers, as the order of their statements. *)

\* getCase: the projection for the public and for a published-only token, else
\* the case and its history.
InternalBackwards == <<"history", "rows", "authorise">>
Internal == <<"rows", "authorise", "history">>

\* searchPublishedCases with a query.
Search == <<"pages", "shown">>

\* exportRegistry: the run is recorded before anything is read.
RecordedLate == <<"rows", "history", "store", "begin", "finish">>
OperationsFirst == <<"begin", "history", "rows", "store", "finish">>
ExportOne == <<"begin", "rows", "history", "store", "finish">>

Statements(kind) ==
  CASE kind = "internal" -> Internal
    [] kind = "public"   -> <<"rows", "pages", "shown">>
    [] kind = "token"    -> <<"rows", "pages", "authorise", "shown">>
    [] kind = "search"   -> Search
    [] kind = "export"   -> ExportOne

Ask(q) ==
  /\ goal[q] = None
  /\ \E g \in Goal :
       /\ goal' = [goal EXCEPT ![q] = g]
       /\ todo' = [todo EXCEPT ![q] = Statements(g.kind)]
  /\ UNCHANGED <<got, told, at, runs, files, results>>

About(q, statement) == todo[q] # <<>> /\ Head(todo[q]) = statement

Visited(q) == ExportOrder[at[q]]

\* The cases a statement is about; the tables of the other registries are not
\* the ones of this model.
Scope(q) ==
  CASE Wants(q, {"export"}) -> IF Visited(q) = Home THEN CaseKeys ELSE {}
    [] Wants(q, {"search"}) -> CaseKeys
    [] OTHER                -> {goal[q].case}

Advanced(q) == todo' = [todo EXCEPT ![q] = Tail(@)]

\* The last statement answers.
Proceed(q) ==
  /\ Advanced(q)
  /\ told' = [told EXCEPT ![q] = IF Len(todo[q]) = 1 THEN "ok" ELSE @]
  /\ UNCHANGED <<goal, at, runs, files, results>>

End(q, answered) ==
  /\ todo' = [todo EXCEPT ![q] = <<>>]
  /\ told' = [told EXCEPT ![q] = answered]
  /\ UNCHANGED <<goal, at, files>>

\* getCaseByDiaryNumber (404), tableToCsv.
ReadRows(q) ==
  /\ About(q, "rows")
  /\ Wants(q, {"export"}) \/ CaseRows(Scope(q)) # NoRows
  /\ got' = [got EXCEPT ![q].rows = CaseRows(Scope(q))]
  /\ Proceed(q)

ReadHistory(q) ==
  /\ About(q, "history")
  /\ got' = [got EXCEPT ![q].ops = HistoryRows(Scope(q))]
  /\ Proceed(q)

\* getPublishedCaseByDiaryNumber (403), searchPublishedCases.
ReadPages(q) ==
  /\ About(q, "pages")
  /\ Wants(q, {"search"}) \/ PublishedRows(Scope(q)) # NoRows
  /\ got' = [got EXCEPT ![q].pages = PublishedRows(Scope(q))]
  /\ Proceed(q)

ReadShown(q) ==
  /\ About(q, "shown")
  /\ got' = [got EXCEPT ![q].shown = PublishedHistory(Scope(q))]
  /\ Proceed(q)

\* canReadCase: Access says who; a published-only token needs the case to have
\* been published when its row was read.
Authorise(q) ==
  /\ About(q, "authorise")
  /\ Wants(q, {"token"}) => got[q].rows[goal[q].case].published
  /\ Proceed(q)
  /\ UNCHANGED got

\* 403 and 404.
Deny(q) ==
  /\ \/ About(q, "authorise")
     \/ About(q, "rows") /\ ~Wants(q, {"export"}) /\ CaseRows(Scope(q)) = NoRows
     \/ About(q, "pages") /\ ~Wants(q, {"search"}) /\ PublishedRows(Scope(q)) = NoRows
  /\ End(q, "refused")
  /\ UNCHANGED <<got, runs, results>>

-----------------------------------------------------------------------------
(* services/exports.ts *)

SetRun(q, status) == runs' = [runs EXCEPT ![q][Visited(q)] = status]

\* beginRun: INSERT INTO export_runs ... 'running'.
BeginRun(q) ==
  /\ About(q, "begin")
  /\ SetRun(q, "running")
  /\ Advanced(q)
  /\ UNCHANGED <<goal, got, told, at, files, results>>

\* Two puts in a row, with nothing awaited between them.
Store(q) ==
  /\ About(q, "store")
  /\ files' = [files EXCEPT ![q][Visited(q)] = [rows |-> got[q].rows, ops |-> got[q].ops, both |-> TRUE]]
  /\ Advanced(q)
  /\ UNCHANGED <<goal, got, told, at, runs, results>>

\* exportAllRegistries: the result of one registry, then the next.
Collect(q, status) ==
  /\ results' = [results EXCEPT ![q] = Append(@, status)]
  /\ got' = [got EXCEPT ![q] = Nothing]
  /\ IF at[q] < Len(ExportOrder)
       THEN /\ at' = [at EXCEPT ![q] = @ + 1]
            /\ todo' = [todo EXCEPT ![q] = Statements("export")]
            /\ UNCHANGED told
       ELSE /\ todo' = [todo EXCEPT ![q] = <<>>]
            /\ told' = [told EXCEPT ![q] = "ok"]
            /\ UNCHANGED at
  /\ UNCHANGED <<goal, files>>

\* finishRun: UPDATE export_runs.
FinishRun(q) ==
  /\ About(q, "finish")
  /\ SetRun(q, "ok")
  /\ Collect(q, "ok")

FinishFailed(q) ==
  /\ About(q, "fail")
  /\ SetRun(q, "failed")
  /\ Collect(q, "failed")

\* A statement or a put in the try block throws: the catch block runs.  The first
\* put may have been made.
Caught == {"rows", "history", "store", "finish"}
ExportFails(q) ==
  /\ Wants(q, {"export"})
  /\ \E s \in Caught : About(q, s)
  /\ todo' = [todo EXCEPT ![q] = <<"fail">>]
  /\ files' \in {files} \cup
       (IF About(q, "store")
          THEN {[files EXCEPT ![q][Visited(q)] = [rows |-> got[q].rows, ops |-> {}, both |-> FALSE]]}
          ELSE {})
  /\ UNCHANGED <<goal, got, told, at, runs, results>>

\* The INSERT or the UPDATE of export_runs throws out of the loop, or the process
\* dies: 500, or no answer at all.
Stop(q) ==
  /\ todo[q] # <<>>
  /\ End(q, "error")
  /\ UNCHANGED <<got, runs, results>>

-----------------------------------------------------------------------------

ReadInit ==
  /\ Init
  /\ goal = [q \in Readers |-> None]
  /\ todo = [q \in Readers |-> <<>>]
  /\ got = [q \in Readers |-> Nothing]
  /\ told = [q \in Readers |-> None]
  /\ at = [q \in Readers |-> 1]
  /\ runs = [q \in Readers |-> [g \in ExportedRegistries |-> None]]
  /\ files = [q \in Readers |-> [g \in ExportedRegistries |-> None]]
  /\ results = [q \in Readers |-> <<>>]
  /\ public = [q \in Readers |-> [pages |-> {}, shown |-> {}]]

ReadStep(q) ==
  \/ Ask(q)
  \/ ReadRows(q)
  \/ ReadHistory(q)
  \/ ReadPages(q)
  \/ ReadShown(q)
  \/ Authorise(q)
  \/ Deny(q)
  \/ BeginRun(q)
  \/ Store(q)
  \/ FinishRun(q)
  \/ FinishFailed(q)
  \/ ExportFails(q)
  \/ Stop(q)

\* What is public now is added to what each reader under way may have been shown.
Witnessed ==
  public' = [q \in Readers |->
    IF goal'[q] = None \/ told[q] # None THEN public[q]
    ELSE [pages |-> public[q].pages \cup {<<c, projection'[c]>> : c \in CaseKeys},
          shown |-> public[q].shown \cup shownOps']]

ReadNext ==
  /\ \/ Next /\ UNCHANGED progress
     \/ \E q \in Readers : ReadStep(q) /\ UNCHANGED vars
  /\ Witnessed

ReadSpec == ReadInit /\ [][ReadNext]_readVars

-----------------------------------------------------------------------------
(* The properties of what a reader is given. *)

Answered(q, kinds) == Wants(q, kinds) /\ told[q] = "ok"

\* Operations that explain a case row read before them: they are numbered without
\* a gap up to the row's counter, and the last of these that bears a state leads to
\* the state of the row.
Upto(ops, c, row) == {o \in ops : o.case = c /\ o.id < row.nextOp}
Explains(ops, c, row) ==
  LET known == Upto(ops, c, row) IN
  {o.id : o \in known} = 1 .. (row.nextOp - 1) /\ LeadsTo(Bearing(known), row.state)

Found(rows) == {c \in CaseKeys : rows[c] # None}
Explained(read) == \A c \in Found(read.rows) : Explains(read.ops, c, read.rows[c])

\* routes.ts, getCase: the case and its history are two reads, and commands commit
\* between them.  The history a worker or a customer is given always explains the
\* state shown above it, whatever else it already holds.
HistoryCoversState ==
  \A q \in Readers : Answered(q, {"internal"}) => Explained(got[q])

\* queries.ts: the public, a published-only token and the search see nothing but
\* pages and operations that were published at some moment of the request.
OnlyPublishedShown ==
  \A q \in Readers : Answered(q, {"public", "token", "search"}) =>
    /\ \A c \in Found(got[q].pages) : <<c, got[q].pages[c]>> \in public[q].pages
    /\ got[q].ops = {} /\ got[q].shown \subseteq public[q].shown

\* exports.ts: the two files of a run recorded as ok are not one snapshot, yet every
\* exported case is explained by the exported operations.
ExportExplainsCases ==
  \A q \in Readers : \A g \in ExportedRegistries :
    runs[q][g] = "ok" => Explained(files[q][g])

\* exports.ts 1-8: "a missed or failed export is visible, not silent".  Nothing is
\* read or stored for a registry that has no row in export_runs; a row says ok only
\* over two complete files; every registry before the one an export is at, and every
\* registry of an export that answered, has a final row that agrees with the answer.
ExportLogTruthful ==
  \A q \in Readers :
    /\ \A g \in ExportedRegistries :
         /\ runs[q][g] = None => files[q][g] = None
         /\ runs[q][g] = "ok" => files[q][g] # None /\ files[q][g].both
    /\ Wants(q, {"export"}) /\ got[q] # Nothing => runs[q][Visited(q)] # None
    /\ \A i \in 1 .. Len(results[q]) : results[q][i] = runs[q][ExportOrder[i]]
    /\ Answered(q, {"export"}) => Len(results[q]) = Len(ExportOrder)

-----------------------------------------------------------------------------
(***************************************************************************)
(* The inductive invariant of ReadsProofs: what a reader has in hand is    *)
(* explained by the history as it is now, whatever has been committed      *)
(* since it was read, and what is left of a handler says what has been     *)
(* read and recorded already.                                              *)
(***************************************************************************)
Rows == [CaseKeys -> Row \cup {None}]
Pages == [CaseKeys -> Projection \cup {None}]
File == [rows: Rows, ops: SUBSET Operation, both: BOOLEAN]
RunStatus == {"running", "ok", "failed"}

ASSUME NoReadAssumption == None \notin Goal \cup File \cup RunStatus \cup {"refused"}

ReadTypes ==
  /\ goal \in [Readers -> Goal \cup {None}]
  /\ DOMAIN todo = Readers
  /\ got \in [Readers -> [rows: Rows, pages: Pages, ops: SUBSET Operation,
                       shown: SUBSET (CaseKeys \X Nat)]]
  /\ told \in [Readers -> {"ok", "refused", "error", None}]
  /\ at \in [Readers -> 1 .. Len(ExportOrder)]
  /\ runs \in [Readers -> [ExportedRegistries -> RunStatus \cup {None}]]
  /\ files \in [Readers -> [ExportedRegistries -> File \cup {None}]]
  /\ results \in [Readers -> Seq({"ok", "failed"})]
  /\ DOMAIN public = Readers

\* What may be left of a handler that has begun.
Remaining(kind) ==
  CASE kind = "internal" -> {<<"authorise", "history">>, <<"history">>}
    [] kind = "public"   -> {<<"pages", "shown">>, <<"shown">>}
    [] kind = "token"    -> {<<"pages", "authorise", "shown">>, <<"authorise", "shown">>, <<"shown">>}
    [] kind = "search"   -> {<<"shown">>}
    [] kind = "export"   -> {<<"rows", "history", "store", "finish">>,
                             <<"history", "store", "finish">>, <<"store", "finish">>,
                             <<"finish">>, <<"fail">>}

Ahead(q) ==
  /\ goal[q] = None => todo[q] = <<>> /\ told[q] = None /\ got[q] = Nothing
  /\ goal[q] # None => todo[q] \in {<<>>, Statements(goal[q].kind)} \cup Remaining(goal[q].kind)
  /\ todo[q] # <<>> => told[q] = None

\* The rows it has read are of cases it asked for, and the history still explains them.
RowsExplained(q) ==
  \A c \in Found(got[q].rows) :
    /\ goal[q] # None /\ c \in Scope(q)
    /\ got[q].rows[c].nextOp <= NextId(c)
    /\ Explains(operations, c, got[q].rows[c])

\* Once it has read the history as well, it needs nothing else to explain them.
HistoryRead(q) ==
  \/ Answered(q, {"internal"})
  \/ Wants(q, {"export"}) /\ todo[q] \in {<<"store", "finish">>, <<"finish">>}
HistoryInHand(q) == HistoryRead(q) => Explained(got[q])

\* It has been shown nothing that was not public after it began.
WasPublic(q) ==
  /\ \A c \in Found(got[q].pages) : <<c, got[q].pages[c]>> \in public[q].pages
  /\ Wants(q, {"public", "token", "search"}) => got[q].ops = {} /\ got[q].shown \subseteq public[q].shown

\* The files and the row in export_runs of each registry.
Complete(q, g) == files[q][g] # None /\ files[q][g].both /\ Explained(files[q][g])

RunsRecorded(q) ==
  /\ \A g \in ExportedRegistries :
       /\ runs[q][g] = None => files[q][g] = None
       /\ runs[q][g] = "ok" => Complete(q, g)
  /\ Wants(q, {"export"}) =>
       /\ got[q] # Nothing => runs[q][Visited(q)] # None
       /\ todo[q] \notin {<<>>, ExportOne} => runs[q][Visited(q)] = "running"
       /\ todo[q] = <<"finish">> => Complete(q, Visited(q))

\* What it has collected is what is recorded of the registries it has visited.
ResultsRecorded(q) ==
  /\ \A i \in 1 .. Len(results[q]) : results[q][i] = runs[q][ExportOrder[i]]
  /\ Wants(q, {"export"}) =>
       Len(results[q]) = IF told[q] = "ok" THEN Len(ExportOrder) ELSE at[q] - 1
  /\ ~Wants(q, {"export"}) => results[q] = <<>> /\ at[q] = 1

ReaderInv(q) ==
  /\ Ahead(q) /\ RowsExplained(q) /\ HistoryInHand(q)
  /\ WasPublic(q) /\ RunsRecorded(q) /\ ResultsRecorded(q)

ReadInv == ReadTypes /\ \A q \in Readers : ReaderInv(q)
=============================================================================
