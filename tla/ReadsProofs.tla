---------------------------- MODULE ReadsProofs ----------------------------
(***************************************************************************)
(* Proofs, for every number of readers, requests, cases, states and        *)
(* registries, of what the reads of CaseReads give their clients and of    *)
(* what an export records, whatever is committed between their statements. *)
(***************************************************************************)
EXTENDS CaseReads, CaseProofs

-----------------------------------------------------------------------------
(* What the commands do to what has been read. *)

\* The history grows, and the counters of its cases with it.
LEMMA HistoryGrows ==
  ASSUME CaseInv, [Next]_vars
  PROVE  operations \subseteq operations' /\ \A c \in CaseKeys : NextId(c) <= NextId(c)'
  <1>1. ASSUME UNCHANGED tables
        PROVE  operations \subseteq operations' /\ \A c \in CaseKeys : NextId(c) <= NextId(c)'
    <2>1. \A c \in CaseKeys : NextId(c)' = NextId(c) /\ NextId(c) \in Nat
      BY <1>1, NoRowAssumption DEF tables, NextId, Exists, CaseInv, TypeOK, Row
    <2> QED BY <1>1, <2>1 DEF tables
  <1>2. ASSUME NEW r \in Requests, Commit(r) \/ CommitUnacknowledged(r)
        PROVE  operations \subseteq operations' /\ \A c \in CaseKeys : NextId(c) <= NextId(c)'
    <2>1. PICK x : pc[r] = "recorded" /\ Install(r) /\ Finish(r, x)
      BY <1>2 DEF Commit, CommitUnacknowledged
    <2>2. /\ TypeOK /\ RequestInv(r) /\ Writing(r)
          /\ work[r].case \in CaseKeys /\ work[r].row \in Row
          /\ cases' = [cases EXCEPT ![work[r].case] = work[r].row]
          /\ operations' = operations \cup work[r].ops
      BY <2>1, CommitParts
    <2>3. Numbers(work[r].ops, NextId(work[r].case), work[r].row.nextOp)
      BY <2>2 DEF RequestInv, ContinuesHistory
    <2>4. ASSUME NEW c \in CaseKeys
          PROVE  NextId(c) <= NextId(c)'
      <3>1. cases'[c] = IF c = work[r].case THEN work[r].row ELSE cases[c]
        BY <2>2 DEF TypeOK
      <3>2. NextId(c) \in Nat
        BY <2>2 DEF TypeOK, NextId, Exists, Row
      <3>3. CASE c = work[r].case
        <4>1. NextId(c)' = work[r].row.nextOp
          BY <2>2, <3>1, <3>3, NoRowAssumption DEF NextId, Exists
        <4> QED BY <2>3, <3>3, <4>1 DEF Numbers
      <3>4. CASE c # work[r].case
        BY <3>1, <3>2, <3>4 DEF NextId, Exists
      <3> QED BY <3>3, <3>4
    <2> QED BY <2>2, <2>4
  <1> QED
    BY <1>1, <1>2, StatementsStand DEF CaseInv, Next, Advance, Terminated, vars

\* A row that the history explains is explained by it for ever: the operations it
\* counts are all there, and none is added below its counter.
LEMMA StillExplained ==
  ASSUME HistoryNumbered, HistoryNumbered', TypeOK, TypeOK', operations \subseteq operations',
         NEW c \in CaseKeys, NextId(c) <= NextId(c)',
         NEW row \in Row, row.nextOp <= NextId(c), Explains(operations, c, row)
  PROVE  row.nextOp <= NextId(c)' /\ Explains(operations', c, row)
  <1>1. /\ row.nextOp \in Nat /\ NextId(c) \in Nat /\ NextId(c)' \in Nat
        /\ \A o \in operations' : o.id \in Nat
    BY DEF TypeOK, Row, NextId, Exists, Operation
  <1>2. ASSUME NEW o \in operations', o.case = c, o.id < row.nextOp
        PROVE  o \in operations
    <2>1. Numbers(History(c), 1, NextId(c)) /\ Numbers(History(c)', 1, NextId(c)')
      BY DEF HistoryNumbered
    <2>2. o \in History(c)' /\ 1 <= o.id /\ o.id <= NextId(c) - 1
      BY <1>1, <1>2, <2>1 DEF History, Numbers
    <2>3. PICK p \in History(c) : p.id = o.id
      BY <1>1, <2>1, <2>2 DEF Numbers
    <2>4. p \in History(c)'
      BY <2>3 DEF History
    <2>5. p = o
      BY <2>1, <2>2, <2>3, <2>4 DEF Numbers
    <2> QED BY <2>3, <2>5 DEF History
  <1>3. Upto(operations', c, row) = Upto(operations, c, row)
    BY <1>2 DEF Upto
  <1> QED BY <1>1, <1>3 DEF Explains

\* The history explains the rows that are committed.
LEMMA RowsAreExplained ==
  ASSUME HistoryInv, NEW c \in CaseKeys, Exists(c)
  PROVE  cases[c].nextOp <= NextId(c) /\ Explains(operations, c, cases[c])
  <1> DEFINE row == cases[c]
             known == Upto(operations, c, row)
  <1>1. /\ TypeOK /\ row \in Row /\ row.nextOp \in Nat /\ NextId(c) = row.nextOp
        /\ \A o \in operations : o.id \in Nat
    BY DEF HistoryInv, CaseInv, TypeOK, Row, NextId, Exists, Operation
  <1>2. Numbers(History(c), 1, row.nextOp) /\ LeadsTo(Bearing(History(c)), row.state)
    BY <1>1 DEF HistoryInv, CaseInv, HistoryNumbered, HistoryExplainsState
  <1>3. known = History(c)
    BY <1>1, <1>2 DEF Numbers, History, Upto
  <1>4. {o.id : o \in known} = 1 .. (row.nextOp - 1)
    BY <1>1, <1>2, <1>3 DEF Numbers, History
  <1> QED BY <1>1, <1>2, <1>3, <1>4 DEF Explains

\* What explains a case are the operations of that case.
LEMMA ExplainedByItsOwn ==
  ASSUME NEW S, NEW T, NEW c, NEW row, Explains(S, c, row),
         \A o : o.case = c => (o \in S <=> o \in T)
  PROVE  Explains(T, c, row)
  <1>1. Upto(T, c, row) = Upto(S, c, row)
    BY DEF Upto
  <1> QED BY <1>1 DEF Explains

-----------------------------------------------------------------------------
(* The handlers. *)

\* Where a handler is, and how it goes on, told from its next statement.
OnItsWay(k, t) ==
  /\ Head(t) = "rows" =>
       /\ k \in {"internal", "public", "token", "export"}
       /\ Len(t) # 1 /\ Tail(t) \in Remaining(k) /\ Tail(t) # <<>>
       /\ k = "export" => t # ExportOne /\ Tail(t) = <<"history", "store", "finish">>
  /\ Head(t) = "history" =>
       /\ k \in {"internal", "export"}
       /\ k = "internal" => Len(t) = 1 /\ Tail(t) = <<>>
       /\ k = "export" => t # ExportOne /\ Len(t) # 1 /\ Tail(t) = <<"store", "finish">>
  /\ Head(t) = "pages" =>
       /\ k \in {"public", "token", "search"}
       /\ Len(t) # 1 /\ Tail(t) \in Remaining(k) /\ Tail(t) # <<>>
  /\ Head(t) = "shown" => k \in {"public", "token", "search"} /\ Len(t) = 1 /\ Tail(t) = <<>>
  /\ Head(t) = "authorise" =>
       /\ k \in {"internal", "token"}
       /\ Len(t) # 1 /\ Tail(t) \in Remaining(k) /\ Tail(t) # <<>>
  /\ Head(t) = "begin" =>
       k = "export" /\ t = ExportOne /\ Tail(t) = <<"rows", "history", "store", "finish">>
  /\ Head(t) = "store" => k = "export" /\ t = <<"store", "finish">> /\ Tail(t) = <<"finish">>
  /\ Head(t) = "finish" => k = "export" /\ t = <<"finish">>
  /\ Head(t) = "fail" => k = "export" /\ t = <<"fail">>

LEMMA Statement ==
  ASSUME NEW k \in Kinds, NEW t \in {<<>>, Statements(k)} \cup Remaining(k), t # <<>>
  PROVE  OnItsWay(k, t)
  <1>1. CASE k = "internal"
    <2>1. t \in {<<"rows", "authorise", "history">>, <<"authorise", "history">>, <<"history">>}
      BY <1>1 DEF Statements, Remaining, Internal
    <2>2. CASE t = <<"rows", "authorise", "history">>
      BY <1>1, <2>2 DEF OnItsWay, Remaining
    <2>3. CASE t = <<"authorise", "history">>
      BY <1>1, <2>3 DEF OnItsWay, Remaining
    <2>4. CASE t = <<"history">>
      BY <1>1, <2>4 DEF OnItsWay
    <2> QED BY <2>1, <2>2, <2>3, <2>4
  <1>2. CASE k = "public"
    <2>1. t \in {<<"rows", "pages", "shown">>, <<"pages", "shown">>, <<"shown">>}
      BY <1>2 DEF Statements, Remaining
    <2>2. CASE t = <<"rows", "pages", "shown">>
      BY <1>2, <2>2 DEF OnItsWay, Remaining
    <2>3. CASE t = <<"pages", "shown">>
      BY <1>2, <2>3 DEF OnItsWay, Remaining
    <2>4. CASE t = <<"shown">>
      BY <1>2, <2>4 DEF OnItsWay
    <2> QED BY <2>1, <2>2, <2>3, <2>4
  <1>3. CASE k = "token"
    <2>1. t \in {<<"rows", "pages", "authorise", "shown">>, <<"pages", "authorise", "shown">>,
                 <<"authorise", "shown">>, <<"shown">>}
      BY <1>3 DEF Statements, Remaining
    <2>2. CASE t = <<"rows", "pages", "authorise", "shown">>
      BY <1>3, <2>2 DEF OnItsWay, Remaining
    <2>3. CASE t = <<"pages", "authorise", "shown">>
      BY <1>3, <2>3 DEF OnItsWay, Remaining
    <2>4. CASE t = <<"authorise", "shown">>
      BY <1>3, <2>4 DEF OnItsWay, Remaining
    <2>5. CASE t = <<"shown">>
      BY <1>3, <2>5 DEF OnItsWay
    <2> QED BY <2>1, <2>2, <2>3, <2>4, <2>5
  <1>4. CASE k = "search"
    <2>1. t \in {<<"pages", "shown">>, <<"shown">>}
      BY <1>4 DEF Statements, Remaining, Search
    <2>2. CASE t = <<"pages", "shown">>
      BY <1>4, <2>2 DEF OnItsWay, Remaining
    <2>3. CASE t = <<"shown">>
      BY <1>4, <2>3 DEF OnItsWay
    <2> QED BY <2>1, <2>2, <2>3
  <1>5. CASE k = "export"
    <2>1. t \in {<<"begin", "rows", "history", "store", "finish">>,
                 <<"rows", "history", "store", "finish">>, <<"history", "store", "finish">>,
                 <<"store", "finish">>, <<"finish">>, <<"fail">>}
      BY <1>5 DEF Statements, Remaining, ExportOne
    <2>2. CASE t = <<"begin", "rows", "history", "store", "finish">>
      BY <1>5, <2>2 DEF OnItsWay, ExportOne
    <2>3. CASE t = <<"rows", "history", "store", "finish">>
      BY <1>5, <2>3 DEF OnItsWay, ExportOne, Remaining
    <2>4. CASE t = <<"history", "store", "finish">>
      BY <1>5, <2>4 DEF OnItsWay, ExportOne
    <2>5. CASE t = <<"store", "finish">>
      BY <1>5, <2>5 DEF OnItsWay, ExportOne
    <2>6. CASE t = <<"finish">>
      BY <1>5, <2>6 DEF OnItsWay, ExportOne
    <2>7. CASE t = <<"fail">>
      BY <1>5, <2>7 DEF OnItsWay, ExportOne
    <2> QED BY <2>1, <2>2, <2>3, <2>4, <2>5, <2>6, <2>7
  <1> QED BY <1>1, <1>2, <1>3, <1>4, <1>5 DEF Kinds

\* Who has statements left has been asked for something and has not answered.
LEMMA UnderWay ==
  ASSUME ReadTypes, NEW q \in Readers, Ahead(q), todo[q] # <<>>
  PROVE  /\ goal[q] \in Goal /\ goal[q] # None /\ told[q] = None
         /\ goal[q].kind \in Kinds /\ goal[q].case \in CaseKeys
         /\ OnItsWay(goal[q].kind, todo[q])
  <1>1. /\ goal[q] \in Goal /\ goal[q] # None /\ told[q] = None
        /\ goal[q].kind \in Kinds /\ goal[q].case \in CaseKeys
    BY DEF ReadTypes, Ahead, Goal
  <1>2. todo[q] \in {<<>>, Statements(goal[q].kind)} \cup Remaining(goal[q].kind)
    BY <1>1 DEF Ahead
  <1> QED BY <1>1, <1>2, Statement

\* Nobody's witness forgets, and who is under way witnesses what is public now.
LEMMA WitnessGrows ==
  ASSUME ReadTypes, Witnessed, NEW q \in Readers
  PROVE  /\ public[q].pages \subseteq public'[q].pages /\ public[q].shown \subseteq public'[q].shown
         /\ goal'[q] # None /\ told[q] = None =>
              /\ \A c \in CaseKeys : <<c, projection'[c]>> \in public'[q].pages
              /\ shownOps' \subseteq public'[q].shown
  BY DEF Witnessed

LEMMA WitnessDomain ==
  ASSUME Witnessed
  PROVE  DOMAIN public' = Readers
  BY DEF Witnessed

-----------------------------------------------------------------------------
(* Who does not move keeps what it has, whatever is committed meanwhile. *)

Still(q) ==
  /\ goal'[q] = goal[q] /\ todo'[q] = todo[q] /\ got'[q] = got[q] /\ told'[q] = told[q]
  /\ at'[q] = at[q] /\ runs'[q] = runs[q] /\ files'[q] = files[q] /\ results'[q] = results[q]

\* What is explained stays explained.
LEMMA RowsStayExplained ==
  ASSUME CaseInv, CaseInv', [Next]_vars, ReadTypes, NEW q \in Readers, RowsExplained(q),
         goal'[q] = goal[q], at'[q] = at[q], got'[q].rows = got[q].rows
  PROVE  RowsExplained(q)'
  <1>1. ASSUME NEW c \in Found(got[q].rows)
        PROVE  /\ goal'[q] # None /\ c \in Scope(q)'
               /\ got[q].rows[c].nextOp <= NextId(c)'
               /\ Explains(operations', c, got[q].rows[c])
    <2>1. c \in CaseKeys /\ got[q].rows[c] \in Row
      BY <1>1 DEF Found, ReadTypes, Rows
    <2>2. /\ goal'[q] # None /\ c \in Scope(q)
          /\ got[q].rows[c].nextOp <= NextId(c) /\ Explains(operations, c, got[q].rows[c])
      BY <1>1 DEF RowsExplained
    <2>3. Scope(q)' = Scope(q)
      BY DEF Scope, Wants, Visited
    <2> QED BY <2>1, <2>2, <2>3, HistoryGrows, StillExplained DEF CaseInv
  <1> QED BY <1>1 DEF RowsExplained, Found

LEMMA ReaderStands ==
  ASSUME CaseInv, CaseInv', [Next]_vars, ReadTypes, Witnessed,
         NEW q \in Readers, ReaderInv(q), Still(q)
  PROVE  ReaderInv(q)'
  <1>1. Ahead(q)' /\ HistoryInHand(q)' /\ ResultsRecorded(q)'
    BY DEF ReaderInv, Still, Ahead, HistoryInHand, HistoryRead, Answered, Wants, ResultsRecorded
  <1>2. RowsExplained(q)'
    BY RowsStayExplained DEF ReaderInv, Still
  <1>3. WasPublic(q)'
    BY WitnessGrows DEF ReaderInv, Still, WasPublic, Wants
  <1>4. RunsRecorded(q)'
    BY DEF ReaderInv, Still, RunsRecorded, Complete, Wants, Visited
  <1> QED BY <1>1, <1>2, <1>3, <1>4 DEF ReaderInv

-----------------------------------------------------------------------------
(* A reader moves. *)

\* The others stand, and the tables.
LEMMA OneMoves ==
  ASSUME CaseInv, CaseInv', UNCHANGED vars, ReadTypes, ReadTypes', Witnessed,
         \A p \in Readers : ReaderInv(p), NEW q \in Readers, ReaderInv(q)',
         \A p \in Readers \ {q} : Still(p)
  PROVE  ReadInv'
  <1>1. \A p \in Readers \ {q} : ReaderInv(p)'
    BY ReaderStands
  <1> QED BY <1>1 DEF ReadInv

LEMMA AskInv ==
  ASSUME CaseInv, CaseInv', UNCHANGED vars, ReadInv, Witnessed, NEW q \in Readers, Ask(q)
  PROVE  ReadInv'
  <1>1. PICK g \in Goal : /\ goal' = [goal EXCEPT ![q] = g]
                          /\ todo' = [todo EXCEPT ![q] = Statements(g.kind)]
    BY DEF Ask
  <1>2. /\ goal[q] = None /\ told[q] = None /\ got[q] = Nothing /\ g # None /\ g.kind \in Kinds
        /\ results[q] = <<>> /\ at[q] = 1
        /\ UNCHANGED <<got, told, at, runs, files, results>>
    BY NoReadAssumption DEF Ask, ReadInv, ReaderInv, Ahead, ResultsRecorded, Wants, Goal
  <1>3. goal'[q] = g /\ todo'[q] = Statements(g.kind) /\ \A p \in Readers \ {q} : Still(p)
    BY <1>1, <1>2 DEF ReadInv, ReadTypes, Still
  <1>4. ReadTypes'
    <2>1. goal' \in [Readers -> Goal \cup {None}] /\ DOMAIN todo' = Readers
      BY <1>1 DEF ReadInv, ReadTypes
    <2> QED BY <1>2, <2>1, WitnessDomain DEF ReadInv, ReadTypes
  <1>5. Ahead(q)'
    BY <1>2, <1>3 DEF Ahead
  <1>6. RowsExplained(q)' /\ HistoryInHand(q)'
    BY <1>2 DEF RowsExplained, HistoryInHand, Explained, Found, Nothing, NoRows
  <1>7. WasPublic(q)'
    BY <1>2 DEF WasPublic, Found, Nothing, NoRows
  <1>8. RunsRecorded(q)'
    <2>1. \A h \in ExportedRegistries :
            /\ runs'[q][h] = None => files'[q][h] = None
            /\ runs'[q][h] = "ok" => Complete(q, h)'
      BY <1>2 DEF ReadInv, ReaderInv, RunsRecorded, Complete
    <2>2. Wants(q, {"export"})' => todo'[q] = ExportOne
      BY <1>3 DEF Wants, Statements
    <2>3. ExportOne # <<"finish">>
      BY DEF ExportOne
    <2> QED BY <1>2, <2>1, <2>2, <2>3 DEF RunsRecorded
  <1>9. ResultsRecorded(q)'
    BY <1>2, NoAnswerAssumption DEF ResultsRecorded
  <1> QED
    BY <1>3, <1>4, <1>5, <1>6, <1>7, <1>8, <1>9, OneMoves DEF ReadInv, ReaderInv

\* What it has in hand, and what a statement adds to it.
Hand == [rows: Rows, pages: Pages, ops: SUBSET Operation, shown: SUBSET (CaseKeys \X Nat)]

\* The statement that a handler runs goes on to the next one, or answers.
LEMMA ProceedParts ==
  ASSUME ReadInv, NEW q \in Readers, todo[q] # <<>>, Proceed(q)
  PROVE  /\ goal' = goal /\ at' = at /\ runs' = runs /\ files' = files /\ results' = results
         /\ todo'[q] = Tail(todo[q]) /\ told'[q] = (IF Len(todo[q]) = 1 THEN "ok" ELSE None)
         /\ \A p \in Readers \ {q} : todo'[p] = todo[p] /\ told'[p] = told[p]
         /\ DOMAIN todo' = Readers /\ told' \in [Readers -> {"ok", "refused", "error", None}]
  <1>1. told[q] = None
    BY UnderWay DEF ReadInv, ReaderInv
  <1> QED BY <1>1 DEF Proceed, Advanced, ReadInv, ReadTypes

\* A SELECT that keeps what the invariant says of the rows it returns, keeps it all.
LEMMA SelectInv ==
  ASSUME CaseInv, CaseInv', UNCHANGED vars, ReadInv, Witnessed, NEW q \in Readers,
         todo[q] # <<>>, Head(todo[q]) \in {"rows", "history", "pages", "shown", "authorise"},
         Proceed(q), NEW hand \in Hand, got' = [got EXCEPT ![q] = hand],
         RowsExplained(q)', HistoryInHand(q)', WasPublic(q)'
  PROVE  ReadInv'
  <1>1. /\ ReadTypes /\ ReaderInv(q) /\ goal[q] # None /\ told[q] = None
        /\ goal[q].kind \in Kinds /\ OnItsWay(goal[q].kind, todo[q])
    BY UnderWay DEF ReadInv, ReaderInv
  <1>2. /\ goal' = goal /\ at' = at /\ runs' = runs /\ files' = files /\ results' = results
        /\ todo'[q] = Tail(todo[q]) /\ told'[q] = (IF Len(todo[q]) = 1 THEN "ok" ELSE None)
        /\ \A p \in Readers \ {q} : todo'[p] = todo[p] /\ told'[p] = told[p]
        /\ DOMAIN todo' = Readers /\ told' \in [Readers -> {"ok", "refused", "error", None}]
    BY ProceedParts
  <1>3. got'[q] = hand /\ \A p \in Readers \ {q} : got'[p] = got[p]
    BY <1>1 DEF ReadTypes
  <1>4. ReadTypes'
    BY <1>1, <1>2, WitnessDomain DEF ReadTypes, Hand
  <1>5. Ahead(q)'
    BY <1>1, <1>2, NoAnswerAssumption DEF Ahead, OnItsWay, Remaining
  <1>6. Wants(q, {"export"}) =>
          /\ Len(todo[q]) # 1 /\ todo[q] \notin {<<>>, ExportOne} /\ todo'[q] # <<"finish">>
    BY <1>1, <1>2 DEF OnItsWay, Wants
  <1>7. RunsRecorded(q)'
    <2>1. \A g \in ExportedRegistries :
            /\ runs'[q][g] = None => files'[q][g] = None
            /\ runs'[q][g] = "ok" => Complete(q, g)'
      BY <1>1, <1>2 DEF ReaderInv, RunsRecorded, Complete
    <2>2. Wants(q, {"export"})' => runs'[q][Visited(q)'] = "running"
      BY <1>1, <1>2, <1>6 DEF ReaderInv, RunsRecorded, Wants, Visited
    <2> QED BY <1>2, <1>6, <2>1, <2>2, NoReadAssumption DEF RunsRecorded, Wants, RunStatus
  <1>8. ResultsRecorded(q)'
    BY <1>1, <1>2, <1>6, NoAnswerAssumption DEF ReaderInv, ResultsRecorded, Wants
  <1>9. \A p \in Readers \ {q} : Still(p)
    BY <1>2, <1>3 DEF Still
  <1> QED
    BY <1>1, <1>4, <1>5, <1>7, <1>8, <1>9, OneMoves DEF ReadInv, ReaderInv

\* What a reader sees of the tables is as it was before the step.
LEMMA SameTables ==
  ASSUME UNCHANGED vars, NEW q, goal' = goal, at' = at
  PROVE  /\ Scope(q)' = Scope(q) /\ operations' = operations /\ cases' = cases
         /\ projection' = projection /\ shownOps' = shownOps
         /\ \A c \in CaseKeys : NextId(c)' = NextId(c)
  BY DEF vars, tables, Scope, Wants, Visited, NextId, Exists

LEMMA ReadRowsInv ==
  ASSUME HistoryInv, CaseInv', UNCHANGED vars, ReadInv, Witnessed, NEW q \in Readers, ReadRows(q)
  PROVE  ReadInv'
  <1> DEFINE hand == [got[q] EXCEPT !.rows = CaseRows(Scope(q))]
  <1>1. /\ CaseInv /\ TypeOK /\ ReadTypes /\ ReaderInv(q) /\ goal[q] # None /\ told[q] = None
        /\ todo[q] # <<>> /\ Head(todo[q]) = "rows" /\ Proceed(q)
        /\ goal[q].kind \in Kinds /\ OnItsWay(goal[q].kind, todo[q])
    BY UnderWay DEF HistoryInv, CaseInv, ReadInv, ReaderInv, ReadRows, About
  <1>2. got[q] \in Hand /\ CaseRows(Scope(q)) \in Rows
    BY <1>1 DEF TypeOK, ReadTypes, Hand, CaseRows, Rows
  <1>3. /\ hand \in Hand /\ hand.rows = CaseRows(Scope(q)) /\ hand.pages = got[q].pages
        /\ hand.ops = got[q].ops /\ hand.shown = got[q].shown
    BY <1>2 DEF Hand
  <1>4. got' = [got EXCEPT ![q] = hand] /\ got'[q] = hand
    BY <1>1 DEF ReadRows, ReadTypes
  <1> HIDE DEF hand
  <1>5. /\ goal' = goal /\ at' = at /\ told'[q] = None /\ todo'[q] = Tail(todo[q])
    BY <1>1, ProceedParts DEF OnItsWay
  <1>6. RowsExplained(q)'
    <2>1. ASSUME NEW c \in Found(hand.rows)
          PROVE  /\ c \in Scope(q) /\ hand.rows[c].nextOp <= NextId(c)
                 /\ Explains(operations, c, hand.rows[c])
      BY <1>3, <2>1, RowsAreExplained DEF Found, CaseRows, Exists
    <2>2. /\ Found(got[q].rows)' = Found(hand.rows)
          /\ \A c \in Found(hand.rows) : c \in CaseKeys
      BY <1>4 DEF Found
    <2> QED BY <1>1, <1>4, <1>5, <2>1, <2>2, SameTables DEF RowsExplained
  <1>7. HistoryInHand(q)'
    BY <1>1, <1>5, NoAnswerAssumption DEF HistoryInHand, HistoryRead, Answered, Wants, OnItsWay
  <1>8. WasPublic(q)'
    BY <1>1, <1>3, <1>4, <1>5, WitnessGrows DEF ReaderInv, WasPublic, Wants, Found
  <1> QED BY <1>1, <1>3, <1>4, <1>6, <1>7, <1>8, SelectInv

\* The rows it has in hand stay explained while it reads something else.
LEMMA HandExplained ==
  ASSUME CaseInv, CaseInv', UNCHANGED vars, ReadTypes, NEW q \in Readers, RowsExplained(q),
         goal' = goal, at' = at, got'[q].rows = got[q].rows
  PROVE  RowsExplained(q)'
  <1>1. [Next]_vars
    OBVIOUS
  <1> QED BY <1>1, RowsStayExplained

LEMMA ReadHistoryInv ==
  ASSUME HistoryInv, CaseInv', UNCHANGED vars, ReadInv, Witnessed, NEW q \in Readers, ReadHistory(q)
  PROVE  ReadInv'
  <1> DEFINE hand == [got[q] EXCEPT !.ops = HistoryRows(Scope(q))]
  <1>1. /\ CaseInv /\ TypeOK /\ ReadTypes /\ ReaderInv(q) /\ goal[q] # None /\ told[q] = None
        /\ todo[q] # <<>> /\ Head(todo[q]) = "history" /\ Proceed(q)
        /\ goal[q].kind \in Kinds /\ OnItsWay(goal[q].kind, todo[q])
    BY UnderWay DEF HistoryInv, CaseInv, ReadInv, ReaderInv, ReadHistory, About
  <1>2. got[q] \in Hand /\ HistoryRows(Scope(q)) \subseteq Operation
    BY <1>1 DEF TypeOK, ReadTypes, Hand, HistoryRows
  <1>3. /\ hand \in Hand /\ hand.rows = got[q].rows /\ hand.pages = got[q].pages
        /\ hand.ops = HistoryRows(Scope(q)) /\ hand.shown = got[q].shown
    BY <1>2 DEF Hand
  <1>4. got' = [got EXCEPT ![q] = hand] /\ got'[q] = hand
    BY <1>1 DEF ReadHistory, ReadTypes
  <1> HIDE DEF hand
  <1>5. goal' = goal /\ at' = at
    BY <1>1, ProceedParts
  <1>6. RowsExplained(q)'
    BY <1>1, <1>3, <1>4, <1>5, HandExplained DEF ReaderInv
  <1>7. HistoryInHand(q)'
    <2>1. ASSUME NEW c \in Found(hand.rows)
          PROVE  Explains(hand.ops, c, hand.rows[c])
      <3>1. c \in Scope(q) /\ Explains(operations, c, hand.rows[c])
        BY <1>1, <1>3, <2>1 DEF ReaderInv, RowsExplained
      <3>2. \A o : o.case = c => (o \in operations <=> o \in hand.ops)
        BY <1>3, <3>1 DEF HistoryRows
      <3> QED BY <3>1, <3>2, ExplainedByItsOwn
    <2> QED BY <1>4, <2>1 DEF HistoryInHand, Explained, Found
  <1>8. WasPublic(q)'
    BY <1>1, <1>3, <1>4, <1>5, WitnessGrows DEF ReaderInv, WasPublic, Wants, Found, OnItsWay
  <1> QED BY <1>1, <1>3, <1>4, <1>6, <1>7, <1>8, SelectInv

\* Nobody who reads pages is about to answer with a history.
LEMMA PublicNotHistory ==
  ASSUME ReadInv, NEW q \in Readers, todo[q] # <<>>, Proceed(q),
         Head(todo[q]) \in {"pages", "shown", "authorise"}
  PROVE  HistoryInHand(q)'
  <1>1. /\ goal[q] # None /\ told[q] = None /\ goal[q].kind \in Kinds
        /\ OnItsWay(goal[q].kind, todo[q])
    BY UnderWay DEF ReadInv, ReaderInv
  <1>2. goal' = goal /\ told'[q] = (IF Len(todo[q]) = 1 THEN "ok" ELSE None)
    BY ProceedParts
  <1> QED
    BY <1>1, <1>2, NoAnswerAssumption DEF HistoryInHand, HistoryRead, Answered, Wants, OnItsWay

LEMMA ReadPagesInv ==
  ASSUME HistoryInv, CaseInv', UNCHANGED vars, ReadInv, Witnessed, NEW q \in Readers, ReadPages(q)
  PROVE  ReadInv'
  <1> DEFINE hand == [got[q] EXCEPT !.pages = PublishedRows(Scope(q))]
  <1>1. /\ CaseInv /\ TypeOK /\ ReadTypes /\ ReaderInv(q) /\ goal[q] # None /\ told[q] = None
        /\ todo[q] # <<>> /\ Head(todo[q]) = "pages" /\ Proceed(q)
    BY UnderWay DEF HistoryInv, CaseInv, ReadInv, ReaderInv, ReadPages, About
  <1>2. got[q] \in Hand /\ PublishedRows(Scope(q)) \in Pages
    BY <1>1 DEF TypeOK, ReadTypes, Hand, PublishedRows, Pages
  <1>3. /\ hand \in Hand /\ hand.rows = got[q].rows /\ hand.pages = PublishedRows(Scope(q))
        /\ hand.ops = got[q].ops /\ hand.shown = got[q].shown
    BY <1>2 DEF Hand
  <1>4. got' = [got EXCEPT ![q] = hand] /\ got'[q] = hand
    BY <1>1 DEF ReadPages, ReadTypes
  <1> HIDE DEF hand
  <1>5. goal' = goal /\ at' = at
    BY <1>1, ProceedParts
  <1>6. RowsExplained(q)'
    BY <1>1, <1>3, <1>4, <1>5, HandExplained DEF ReaderInv
  <1>7. HistoryInHand(q)'
    BY <1>1, PublicNotHistory
  <1>8. WasPublic(q)'
    <2>1. ASSUME NEW c \in Found(hand.pages)
          PROVE  <<c, hand.pages[c]>> \in public'[q].pages
      BY <1>1, <1>3, <1>5, <2>1, WitnessGrows, SameTables DEF Found, PublishedRows
    <2>2. Found(got[q].pages)' = Found(hand.pages)
      BY <1>4 DEF Found
    <2>3. Wants(q, {"public", "token", "search"})' =>
            got'[q].ops = {} /\ got'[q].shown \subseteq public'[q].shown
      BY <1>1, <1>3, <1>4, <1>5, WitnessGrows DEF ReaderInv, WasPublic, Wants
    <2> QED BY <1>4, <2>1, <2>2, <2>3 DEF WasPublic
  <1> QED BY <1>1, <1>3, <1>4, <1>6, <1>7, <1>8, SelectInv

LEMMA ReadShownInv ==
  ASSUME HistoryInv, CaseInv', UNCHANGED vars, ReadInv, Witnessed, NEW q \in Readers, ReadShown(q)
  PROVE  ReadInv'
  <1> DEFINE hand == [got[q] EXCEPT !.shown = PublishedHistory(Scope(q))]
  <1>1. /\ CaseInv /\ TypeOK /\ ReadTypes /\ ReaderInv(q) /\ goal[q] # None /\ told[q] = None
        /\ todo[q] # <<>> /\ Head(todo[q]) = "shown" /\ Proceed(q)
    BY UnderWay DEF HistoryInv, CaseInv, ReadInv, ReaderInv, ReadShown, About
  <1>2. /\ got[q] \in Hand /\ PublishedHistory(Scope(q)) \subseteq CaseKeys \X Nat
        /\ PublishedHistory(Scope(q)) \subseteq shownOps
    BY <1>1 DEF TypeOK, ReadTypes, Hand, PublishedHistory
  <1>3. /\ hand \in Hand /\ hand.rows = got[q].rows /\ hand.pages = got[q].pages
        /\ hand.ops = got[q].ops /\ hand.shown = PublishedHistory(Scope(q))
    BY <1>2 DEF Hand
  <1>4. got' = [got EXCEPT ![q] = hand] /\ got'[q] = hand
    BY <1>1 DEF ReadShown, ReadTypes
  <1> HIDE DEF hand
  <1>5. goal' = goal /\ at' = at
    BY <1>1, ProceedParts
  <1>6. RowsExplained(q)'
    BY <1>1, <1>3, <1>4, <1>5, HandExplained DEF ReaderInv
  <1>7. HistoryInHand(q)'
    BY <1>1, PublicNotHistory
  <1>8. WasPublic(q)'
    <2>1. hand.shown \subseteq public'[q].shown
      BY <1>1, <1>2, <1>3, <1>5, WitnessGrows, SameTables
    <2> QED
      BY <1>1, <1>3, <1>4, <1>5, <2>1, WitnessGrows DEF ReaderInv, WasPublic, Wants, Found
  <1> QED BY <1>1, <1>3, <1>4, <1>6, <1>7, <1>8, SelectInv

LEMMA AuthoriseInv ==
  ASSUME HistoryInv, CaseInv', UNCHANGED vars, ReadInv, Witnessed, NEW q \in Readers, Authorise(q)
  PROVE  ReadInv'
  <1>1. /\ CaseInv /\ ReadTypes /\ ReaderInv(q) /\ goal[q] # None /\ got' = got
        /\ todo[q] # <<>> /\ Head(todo[q]) = "authorise" /\ Proceed(q)
    BY UnderWay DEF HistoryInv, ReadInv, ReaderInv, Authorise, About
  <1>2. got[q] \in Hand /\ got' = [got EXCEPT ![q] = got[q]]
    BY <1>1 DEF ReadTypes, Hand
  <1>3. goal' = goal /\ at' = at
    BY <1>1, ProceedParts
  <1>4. RowsExplained(q)'
    BY <1>1, <1>3, HandExplained DEF ReaderInv
  <1>5. HistoryInHand(q)'
    BY <1>1, PublicNotHistory
  <1>6. WasPublic(q)'
    BY <1>1, <1>3, WitnessGrows DEF ReaderInv, WasPublic, Wants, Found
  <1> QED BY <1>1, <1>2, <1>4, <1>5, <1>6, SelectInv

\* A request that ends without its answer keeps what it has, and shows it to nobody.
LEMMA EndInv ==
  ASSUME HistoryInv, CaseInv', UNCHANGED vars, ReadInv, Witnessed, NEW q \in Readers,
         Deny(q) \/ Stop(q)
  PROVE  ReadInv'
  <1>1. PICK x \in {"refused", "error"} : End(q, x)
    BY DEF Deny, Stop
  <1>2. /\ CaseInv /\ ReadTypes /\ ReaderInv(q) /\ todo[q] # <<>>
        /\ goal[q] # None /\ told[q] = None
    BY UnderWay DEF HistoryInv, ReadInv, ReaderInv, Deny, Stop, About
  <1>3. /\ todo' = [todo EXCEPT ![q] = <<>>] /\ told' = [told EXCEPT ![q] = x]
        /\ UNCHANGED <<goal, got, at, runs, files, results>>
    BY <1>1 DEF Deny, Stop, End
  <1>4. /\ todo'[q] = <<>> /\ told'[q] = x /\ x # "ok"
        /\ \A p \in Readers \ {q} : Still(p)
    BY <1>2, <1>3 DEF ReadTypes, Still
  <1>5. ReadTypes'
    <2>1. DOMAIN todo' = Readers /\ told' \in [Readers -> {"ok", "refused", "error", None}]
      BY <1>2, <1>3 DEF ReadTypes
    <2> QED BY <1>2, <1>3, <2>1, WitnessDomain DEF ReadTypes
  <1>6. Ahead(q)'
    BY <1>2, <1>3, <1>4 DEF Ahead
  <1>7. RowsExplained(q)'
    BY <1>2, <1>3, HandExplained DEF ReaderInv
  <1>8. HistoryInHand(q)'
    BY <1>4 DEF HistoryInHand, HistoryRead, Answered
  <1>9. WasPublic(q)'
    BY <1>2, <1>3, WitnessGrows DEF ReaderInv, WasPublic, Wants, Found
  <1>10. RunsRecorded(q)'
    BY <1>2, <1>3, <1>4 DEF ReaderInv, RunsRecorded, Complete, Wants, Visited
  <1>11. ResultsRecorded(q)'
    BY <1>2, <1>3, <1>4, NoAnswerAssumption DEF ReaderInv, ResultsRecorded, Wants
  <1> QED
    BY <1>2, <1>4, <1>5, <1>6, <1>7, <1>8, <1>9, <1>10, <1>11, OneMoves DEF ReadInv, ReaderInv

-----------------------------------------------------------------------------
(* The export. *)

\* The registry an export is at is one of those it exports.
LEMMA Visiting ==
  ASSUME ReadTypes, NEW q \in Readers
  PROVE  /\ at[q] \in 1 .. Len(ExportOrder) /\ at[q] \in Nat /\ Len(ExportOrder) \in Nat
         /\ Visited(q) \in ExportedRegistries
         /\ \A i \in 1 .. Len(ExportOrder) :
              ExportOrder[i] \in ExportedRegistries /\ (ExportOrder[i] = Visited(q) => i = at[q])
  BY ExportOrderAssumption DEF ReadTypes, Visited, ExportedRegistries

\* The results that are in are of registries before the one it is at.
LEMMA ResultsStand ==
  ASSUME ReadInv, NEW q \in Readers, todo[q] # <<>>, Wants(q, {"export"}),
         \A g \in ExportedRegistries : g # Visited(q) => runs'[q][g] = runs[q][g]
  PROVE  /\ Len(results[q]) = at[q] - 1 /\ results[q] \in Seq({"ok", "failed"})
         /\ \A i \in 1 .. Len(results[q]) : results[q][i] = runs'[q][ExportOrder[i]]
  <1>1. ReadTypes /\ ReaderInv(q) /\ told[q] = None
    BY UnderWay DEF ReadInv, ReaderInv
  <1>2. Len(results[q]) = at[q] - 1 /\ results[q] \in Seq({"ok", "failed"})
    BY <1>1, NoAnswerAssumption DEF ReaderInv, ResultsRecorded, ReadTypes
  <1>3. ASSUME NEW i \in 1 .. Len(results[q])
        PROVE  results[q][i] = runs'[q][ExportOrder[i]]
    <2>1. i \in 1 .. Len(ExportOrder) /\ i # at[q]
      BY <1>1, <1>2, Visiting
    <2>2. runs'[q][ExportOrder[i]] = runs[q][ExportOrder[i]]
      BY <1>1, <2>1, Visiting
    <2> QED BY <1>1, <2>2 DEF ReaderInv, ResultsRecorded
  <1> QED BY <1>2, <1>3

LEMMA BeginRunInv ==
  ASSUME HistoryInv, CaseInv', UNCHANGED vars, ReadInv, Witnessed, NEW q \in Readers, BeginRun(q)
  PROVE  ReadInv'
  <1> DEFINE g == Visited(q)
  <1>1. /\ CaseInv /\ ReadTypes /\ ReaderInv(q) /\ goal[q] # None /\ told[q] = None
        /\ todo[q] # <<>> /\ goal[q].kind = "export" /\ Wants(q, {"export"})
        /\ Tail(todo[q]) = <<"rows", "history", "store", "finish">>
    BY UnderWay DEF HistoryInv, ReadInv, ReaderInv, BeginRun, About, OnItsWay, Wants
  <1>2. g \in ExportedRegistries
    BY <1>1, Visiting
  <1>3. /\ runs' = [runs EXCEPT ![q][g] = "running"]
        /\ todo' = [todo EXCEPT ![q] = Tail(todo[q])]
        /\ UNCHANGED <<goal, got, told, at, files, results>>
    BY DEF BeginRun, SetRun, Advanced
  <1>4. /\ todo'[q] = <<"rows", "history", "store", "finish">>
        /\ \A h \in ExportedRegistries : runs'[q][h] = IF h = g THEN "running" ELSE runs[q][h]
        /\ \A p \in Readers \ {q} : Still(p)
    BY <1>1, <1>2, <1>3 DEF ReadTypes, Still
  <1>5. ReadTypes'
    <2>1. runs' \in [Readers -> [ExportedRegistries -> RunStatus \cup {None}]]
      BY <1>1, <1>2, <1>3 DEF ReadTypes, RunStatus
    <2>2. DOMAIN todo' = Readers
      BY <1>1, <1>3 DEF ReadTypes
    <2> QED BY <1>1, <1>3, <2>1, <2>2, WitnessDomain DEF ReadTypes
  <1>6. Visited(q)' = g
    BY <1>3 DEF Visited
  <1> HIDE DEF g
  <1>7. Ahead(q)'
    <2>1. todo'[q] \in Remaining(goal[q].kind)
      BY <1>1, <1>4 DEF Remaining
    <2> QED BY <1>1, <1>3, <2>1 DEF Ahead
  <1>8. RowsExplained(q)'
    BY <1>1, <1>3, HandExplained DEF ReaderInv
  <1>9. HistoryInHand(q)'
    BY <1>1, <1>3, <1>4, NoAnswerAssumption DEF HistoryInHand, HistoryRead, Answered
  <1>10. WasPublic(q)'
    BY <1>1, <1>3, WitnessGrows DEF ReaderInv, WasPublic, Wants, Found
  <1>11. RunsRecorded(q)'
    <2>1. ASSUME NEW h \in ExportedRegistries
          PROVE  /\ runs'[q][h] = None => files'[q][h] = None
                 /\ runs'[q][h] = "ok" => Complete(q, h)'
      BY <1>1, <1>3, <1>4, <2>1, NoReadAssumption DEF ReaderInv, RunsRecorded, Complete, RunStatus
    <2> QED BY <1>2, <1>4, <1>6, <2>1, NoReadAssumption DEF RunsRecorded, RunStatus
  <1>12. ResultsRecorded(q)'
    <2>1. /\ Len(results[q]) = at[q] - 1
          /\ \A i \in 1 .. Len(results[q]) : results[q][i] = runs'[q][ExportOrder[i]]
      BY <1>1, <1>4, ResultsStand DEF g
    <2> QED BY <1>1, <1>3, <2>1, NoAnswerAssumption DEF ResultsRecorded, Wants
  <1> QED
    BY <1>1, <1>4, <1>5, <1>7, <1>8, <1>9, <1>10, <1>11, <1>12, OneMoves DEF ReadInv, ReaderInv

LEMMA StoreInv ==
  ASSUME HistoryInv, CaseInv', UNCHANGED vars, ReadInv, Witnessed, NEW q \in Readers, Store(q)
  PROVE  ReadInv'
  <1> DEFINE file == [rows |-> got[q].rows, ops |-> got[q].ops, both |-> TRUE]
  <1>1. /\ CaseInv /\ ReadTypes /\ ReaderInv(q) /\ goal[q] # None /\ told[q] = None
        /\ todo[q] # <<>> /\ goal[q].kind = "export" /\ Wants(q, {"export"})
        /\ todo[q] = <<"store", "finish">> /\ Tail(todo[q]) = <<"finish">>
    BY UnderWay DEF HistoryInv, ReadInv, ReaderInv, Store, About, OnItsWay, Wants
  <1>2. PICK g \in ExportedRegistries : g = Visited(q)
    BY <1>1, Visiting
  <1>3. /\ files' = [files EXCEPT ![q][g] = file]
        /\ todo' = [todo EXCEPT ![q] = Tail(todo[q])]
        /\ UNCHANGED <<goal, got, told, at, runs, results>>
    BY <1>2 DEF Store, Advanced
  <1>4. /\ todo'[q] = <<"finish">>
        /\ \A h \in ExportedRegistries : files'[q][h] = IF h = g THEN file ELSE files[q][h]
        /\ \A p \in Readers \ {q} : Still(p)
    BY <1>1, <1>2, <1>3 DEF ReadTypes, Still
  <1>5. file \in File /\ file # None /\ file.both /\ Explained(file)
    <2>1. got[q].rows \in Rows /\ got[q].ops \in SUBSET Operation
      BY <1>1 DEF ReadTypes
    <2>2. Explained(got[q])
      BY <1>1 DEF ReaderInv, HistoryInHand, HistoryRead
    <2>3. Explained(file)
      BY <2>2 DEF Explained, Found
    <2>4. file \in File
      BY <2>1 DEF File
    <2> QED BY <2>3, <2>4, NoReadAssumption
  <1> HIDE DEF file
  <1>6. ReadTypes'
    <2>1. files' \in [Readers -> [ExportedRegistries -> File \cup {None}]]
      BY <1>1, <1>2, <1>3, <1>5 DEF ReadTypes
    <2>2. DOMAIN todo' = Readers
      BY <1>1, <1>3 DEF ReadTypes
    <2> QED BY <1>1, <1>3, <2>1, <2>2, WitnessDomain DEF ReadTypes
  <1>7. Visited(q)' = g
    BY <1>2, <1>3 DEF Visited
  <1>8. runs[q][g] = "running"
    BY <1>1, <1>2 DEF ReaderInv, RunsRecorded, ExportOne
  <1>9. Ahead(q)'
    <2>1. todo'[q] \in Remaining(goal[q].kind)
      BY <1>1, <1>4 DEF Remaining
    <2> QED BY <1>1, <1>3, <2>1 DEF Ahead
  <1>10. RowsExplained(q)'
    BY <1>1, <1>3, HandExplained DEF ReaderInv
  <1>11. HistoryInHand(q)'
    BY <1>1, <1>3 DEF ReaderInv, HistoryInHand, HistoryRead, Explained, Found
  <1>12. WasPublic(q)'
    BY <1>1, <1>3, WitnessGrows DEF ReaderInv, WasPublic, Wants, Found
  <1>13. RunsRecorded(q)'
    <2>1. ASSUME NEW h \in ExportedRegistries
          PROVE  /\ runs'[q][h] = None => files'[q][h] = None
                 /\ runs'[q][h] = "ok" => Complete(q, h)'
      <3>1. CASE h = g
        BY <1>3, <1>8, <3>1, NoReadAssumption DEF RunStatus
      <3>2. CASE h # g
        BY <1>1, <1>3, <1>4, <3>2 DEF ReaderInv, RunsRecorded, Complete
      <3> QED BY <3>1, <3>2
    <2>2. Complete(q, g)'
      BY <1>2, <1>4, <1>5 DEF Complete
    <2> QED
      BY <1>2, <1>3, <1>7, <1>8, <2>1, <2>2, NoReadAssumption DEF RunsRecorded, RunStatus, Complete
  <1>14. ResultsRecorded(q)'
    BY <1>1, <1>3 DEF ReaderInv, ResultsRecorded, Wants
  <1> QED
    BY <1>1, <1>4, <1>6, <1>9, <1>10, <1>11, <1>12, <1>13, <1>14, OneMoves DEF ReadInv, ReaderInv

\* A statement that throws leaves the file whole or torn, and the run not recorded as ok.
LEMMA ExportFailsInv ==
  ASSUME HistoryInv, CaseInv', UNCHANGED vars, ReadInv, Witnessed, NEW q \in Readers, ExportFails(q)
  PROVE  ReadInv'
  <1> DEFINE g == Visited(q)
             torn == [rows |-> got[q].rows, ops |-> {}, both |-> FALSE]
  <1>1. /\ CaseInv /\ ReadTypes /\ ReaderInv(q) /\ goal[q] # None /\ told[q] = None
        /\ todo[q] # <<>> /\ goal[q].kind = "export" /\ Wants(q, {"export"})
        /\ todo[q] # ExportOne
    <2>1. todo[q] # <<>> /\ Head(todo[q]) \in Caught /\ Wants(q, {"export"})
      BY DEF ExportFails, About
    <2>2. todo[q] # ExportOne
      BY <2>1 DEF ExportOne, Caught
    <2> QED BY <2>1, <2>2, UnderWay DEF HistoryInv, ReadInv, ReaderInv, Wants
  <1>2. g \in ExportedRegistries
    BY <1>1, Visiting
  <1>3. /\ files' \in {files, [files EXCEPT ![q][g] = torn]}
        /\ todo' = [todo EXCEPT ![q] = <<"fail">>]
        /\ UNCHANGED <<goal, got, told, at, runs, results>>
    BY DEF ExportFails
  <1>4. /\ todo'[q] = <<"fail">>
        /\ \A h \in ExportedRegistries : h # g => files'[q][h] = files[q][h]
        /\ \A p \in Readers \ {q} : Still(p)
    BY <1>1, <1>2, <1>3 DEF ReadTypes, Still
  <1>5. torn \in File
    BY <1>1 DEF ReadTypes, File
  <1> HIDE DEF torn
  <1>6. ReadTypes'
    <2>1. files' \in [Readers -> [ExportedRegistries -> File \cup {None}]]
      <3>1. CASE files' = files
        BY <1>1, <3>1 DEF ReadTypes
      <3>2. CASE files' = [files EXCEPT ![q][g] = torn]
        BY <1>1, <1>2, <1>5, <3>2 DEF ReadTypes
      <3> QED BY <1>3, <3>1, <3>2
    <2>2. DOMAIN todo' = Readers
      BY <1>1, <1>3 DEF ReadTypes
    <2> QED BY <1>1, <1>3, <2>1, <2>2, WitnessDomain DEF ReadTypes
  <1>7. Visited(q)' = g
    BY <1>3 DEF Visited
  <1>8. runs[q][g] = "running"
    BY <1>1 DEF ReaderInv, RunsRecorded
  <1> HIDE DEF g
  <1>9. Ahead(q)'
    <2>1. todo'[q] \in Remaining(goal[q].kind)
      BY <1>1, <1>4 DEF Remaining
    <2> QED BY <1>1, <1>3, <2>1 DEF Ahead
  <1>10. RowsExplained(q)'
    BY <1>1, <1>3, HandExplained DEF ReaderInv
  <1>11. HistoryInHand(q)'
    BY <1>1, <1>3, <1>4, NoAnswerAssumption DEF HistoryInHand, HistoryRead, Answered
  <1>12. WasPublic(q)'
    BY <1>1, <1>3, WitnessGrows DEF ReaderInv, WasPublic, Wants, Found
  <1>13. RunsRecorded(q)'
    <2>1. ASSUME NEW h \in ExportedRegistries
          PROVE  /\ runs'[q][h] = None => files'[q][h] = None
                 /\ runs'[q][h] = "ok" => Complete(q, h)'
      <3>1. CASE h = g
        BY <1>3, <1>8, <3>1, NoReadAssumption DEF RunStatus
      <3>2. CASE h # g
        BY <1>1, <1>3, <1>4, <3>2 DEF ReaderInv, RunsRecorded, Complete
      <3> QED BY <3>1, <3>2
    <2> QED BY <1>2, <1>3, <1>4, <1>7, <1>8, <2>1, NoReadAssumption DEF RunsRecorded, RunStatus
  <1>14. ResultsRecorded(q)'
    BY <1>1, <1>3 DEF ReaderInv, ResultsRecorded, Wants
  <1> QED
    BY <1>1, <1>4, <1>6, <1>9, <1>10, <1>11, <1>12, <1>13, <1>14, OneMoves DEF ReadInv, ReaderInv

\* The result of a registry is in, and the export goes on to the next or answers.
LEMMA CollectInv ==
  ASSUME HistoryInv, CaseInv', UNCHANGED vars, ReadInv, Witnessed, NEW q \in Readers,
         todo[q] # <<>>, Wants(q, {"export"}), NEW status \in {"ok", "failed"},
         status = "ok" => Complete(q, Visited(q)), todo[q] # ExportOne,
         SetRun(q, status), Collect(q, status)
  PROVE  ReadInv'
  <1> DEFINE g == Visited(q)
             last == ~(at[q] < Len(ExportOrder))
  <1>1. /\ CaseInv /\ ReadTypes /\ ReaderInv(q) /\ goal[q] # None /\ told[q] = None
        /\ goal[q].kind = "export"
    BY UnderWay DEF HistoryInv, ReadInv, ReaderInv, Wants
  <1>2. g \in ExportedRegistries /\ at[q] \in 1 .. Len(ExportOrder) /\ Len(ExportOrder) \in Nat
    BY <1>1, Visiting
  <1>3. /\ runs' = [runs EXCEPT ![q][g] = status]
        /\ results' = [results EXCEPT ![q] = Append(@, status)]
        /\ got' = [got EXCEPT ![q] = Nothing]
        /\ goal' = goal /\ files' = files
    BY DEF SetRun, Collect
  <1>4. /\ ~last => /\ at' = [at EXCEPT ![q] = @ + 1] /\ told' = told
                    /\ todo' = [todo EXCEPT ![q] = Statements("export")]
        /\ last => /\ at' = at /\ told' = [told EXCEPT ![q] = "ok"]
                   /\ todo' = [todo EXCEPT ![q] = <<>>]
    BY DEF Collect
  <1>5. /\ \A h \in ExportedRegistries : runs'[q][h] = IF h = g THEN status ELSE runs[q][h]
        /\ results'[q] = Append(results[q], status) /\ got'[q] = Nothing
        /\ todo'[q] = IF last THEN <<>> ELSE ExportOne
        /\ told'[q] = IF last THEN "ok" ELSE None
        /\ at'[q] = IF last THEN at[q] ELSE at[q] + 1
        /\ \A p \in Readers \ {q} : Still(p)
    BY <1>1, <1>2, <1>3, <1>4 DEF ReadTypes, Still, Statements
  <1>6. ReadTypes'
    <2>1. /\ runs' \in [Readers -> [ExportedRegistries -> RunStatus \cup {None}]]
          /\ results' \in [Readers -> Seq({"ok", "failed"})]
      BY <1>1, <1>2, <1>3 DEF ReadTypes, RunStatus
    <2>2. got' \in [Readers -> [rows: Rows, pages: Pages, ops: SUBSET Operation,
                                shown: SUBSET (CaseKeys \X Nat)]]
      BY <1>1, <1>3 DEF ReadTypes, Nothing, NoRows, Rows, Pages
    <2>3. DOMAIN todo' = Readers /\ told' \in [Readers -> {"ok", "refused", "error", None}]
      <3>1. CASE last
        BY <1>1, <1>4, <3>1 DEF ReadTypes
      <3>2. CASE ~last
        BY <1>1, <1>4, <3>2 DEF ReadTypes
      <3> QED BY <3>1, <3>2
    <2>4. at' \in [Readers -> 1 .. Len(ExportOrder)]
      <3>1. CASE last
        BY <1>1, <1>4, <3>1 DEF ReadTypes
      <3>2. CASE ~last
        <4>1. at[q] + 1 \in 1 .. Len(ExportOrder) /\ at \in [Readers -> 1 .. Len(ExportOrder)]
          BY <1>1, <1>2, <3>2 DEF ReadTypes
        <4>2. at' = [at EXCEPT ![q] = at[q] + 1]
          BY <1>4, <3>2
        <4> QED BY <4>1, <4>2
      <3> QED BY <3>1, <3>2
    <2> QED BY <1>1, <1>3, <2>1, <2>2, <2>3, <2>4, WitnessDomain DEF ReadTypes
  <1>7. Ahead(q)'
    BY <1>1, <1>3, <1>5 DEF Ahead, Statements
  <1>8. RowsExplained(q)' /\ HistoryInHand(q)' /\ WasPublic(q)'
    BY <1>1, <1>3, <1>5
    DEF RowsExplained, HistoryInHand, Explained, WasPublic, Found, Nothing, NoRows
  <1>9. RunsRecorded(q)'
    <2>1. ASSUME NEW h \in ExportedRegistries
          PROVE  /\ runs'[q][h] = None => files'[q][h] = None
                 /\ runs'[q][h] = "ok" => Complete(q, h)'
      <3>1. CASE h = g
        BY <1>3, <1>5, <3>1, NoReadAssumption DEF RunStatus, Complete
      <3>2. CASE h # g
        BY <1>1, <1>3, <1>5, <3>2 DEF ReaderInv, RunsRecorded, Complete
      <3> QED BY <3>1, <3>2
    <2>2. todo'[q] # <<"finish">>
      <3>1. <<>> # <<"finish">> /\ ExportOne # <<"finish">>
        BY DEF ExportOne
      <3>2. todo'[q] = <<>> \/ todo'[q] = ExportOne
        <4>1. todo'[q] = IF last THEN <<>> ELSE ExportOne
          BY <1>5
        <4> QED BY <4>1
      <3> QED BY <3>1, <3>2
    <2> QED BY <1>5, <2>1, <2>2 DEF RunsRecorded
  <1>10. ResultsRecorded(q)'
    <2>1. /\ Len(results[q]) = at[q] - 1 /\ results[q] \in Seq({"ok", "failed"})
          /\ \A i \in 1 .. Len(results[q]) : results[q][i] = runs'[q][ExportOrder[i]]
      BY <1>5, ResultsStand
    <2>2. Len(results'[q]) = at[q]
      BY <1>2, <1>5, <2>1
    <2>3. ASSUME NEW i \in 1 .. Len(results'[q])
          PROVE  results'[q][i] = runs'[q][ExportOrder[i]]
      <3>1. CASE i = at[q]
        BY <1>2, <1>5, <2>1, <3>1 DEF Visited
      <3>2. CASE i # at[q]
        BY <1>2, <1>5, <2>1, <2>2, <3>2
      <3> QED BY <3>1, <3>2
    <2>4. Wants(q, {"export"})'
      BY <1>3 DEF Wants
    <2> QED BY <1>2, <1>5, <2>2, <2>3, <2>4, NoAnswerAssumption DEF ResultsRecorded
  <1> QED
    BY <1>1, <1>5, <1>6, <1>7, <1>8, <1>9, <1>10, OneMoves DEF ReadInv, ReaderInv

LEMMA FinishInv ==
  ASSUME HistoryInv, CaseInv', UNCHANGED vars, ReadInv, Witnessed, NEW q \in Readers,
         FinishRun(q) \/ FinishFailed(q)
  PROVE  ReadInv'
  <1>1. PICK status \in {"ok", "failed"} :
          /\ SetRun(q, status) /\ Collect(q, status)
          /\ About(q, IF status = "ok" THEN "finish" ELSE "fail")
    BY DEF FinishRun, FinishFailed
  <1>2. /\ ReaderInv(q) /\ todo[q] # <<>> /\ goal[q] # None /\ goal[q].kind = "export"
        /\ todo[q] = IF status = "ok" THEN <<"finish">> ELSE <<"fail">>
    BY <1>1, UnderWay DEF ReadInv, ReaderInv, About, OnItsWay
  <1>3. Wants(q, {"export"}) /\ todo[q] # ExportOne
    BY <1>2 DEF Wants, ExportOne
  <1>4. status = "ok" => Complete(q, Visited(q))
    BY <1>2, <1>3 DEF ReaderInv, RunsRecorded
  <1> QED BY <1>1, <1>2, <1>3, <1>4, CollectInv

-----------------------------------------------------------------------------
(* The theorems. *)

LEMMA ReadInitInv ==
  ASSUME ReadInit
  PROVE  ReadInv
  <1>1. 1 \in 1 .. Len(ExportOrder)
    BY HomeAssumption, ExportOrderAssumption DEF ExportedRegistries
  <1>2. ReadTypes
    BY <1>1 DEF ReadInit, ReadTypes, Nothing, NoRows, Rows, Pages
  <1>3. ASSUME NEW q \in Readers
        PROVE  ReaderInv(q)
    <2>1. /\ goal[q] = None /\ todo[q] = <<>> /\ got[q] = Nothing /\ told[q] = None /\ at[q] = 1
          /\ results[q] = <<>>
          /\ \A g \in ExportedRegistries : runs[q][g] = None /\ files[q][g] = None
      BY DEF ReadInit
    <2>2. Ahead(q) /\ RowsExplained(q) /\ HistoryInHand(q) /\ WasPublic(q)
      BY <2>1 DEF Ahead, RowsExplained, HistoryInHand, HistoryRead, Answered, WasPublic, Wants,
                  Found, Nothing, NoRows
    <2>3. RunsRecorded(q) /\ ResultsRecorded(q)
      BY <2>1, NoAnswerAssumption DEF RunsRecorded, ResultsRecorded, Wants
    <2> QED BY <2>2, <2>3 DEF ReaderInv
  <1> QED BY <1>2, <1>3 DEF ReadInv

LEMMA ReadNextInv ==
  ASSUME HistoryInv, HistoryInv', ReadInv, [ReadNext]_readVars
  PROVE  ReadInv'
  <1>1. CaseInv /\ CaseInv'
    BY DEF HistoryInv
  <1>2. CASE UNCHANGED readVars
    <2>1. /\ UNCHANGED vars /\ UNCHANGED <<goal, todo, got, told, at, runs, files, results, public>>
      BY <1>2 DEF readVars, progress
    <2>2. ReadTypes'
      BY <2>1 DEF ReadInv, ReadTypes
    <2>3. ASSUME NEW q \in Readers
          PROVE  ReaderInv(q)'
      <3>1. Ahead(q)' /\ HistoryInHand(q)' /\ WasPublic(q)'
        BY <2>1 DEF ReadInv, ReaderInv, Ahead, HistoryInHand, HistoryRead, Answered, Wants, WasPublic
      <3>2. RowsExplained(q)'
        BY <1>1, <2>1, HandExplained DEF ReadInv, ReaderInv
      <3>3. RunsRecorded(q)' /\ ResultsRecorded(q)'
        BY <2>1 DEF ReadInv, ReaderInv, RunsRecorded, ResultsRecorded, Complete, Wants, Visited
      <3> QED BY <3>1, <3>2, <3>3 DEF ReaderInv
    <2> QED BY <2>2, <2>3 DEF ReadInv
  <1>3. CASE Next /\ UNCHANGED progress /\ Witnessed
    <2>1. ReadTypes'
      BY <1>3, WitnessDomain DEF ReadInv, ReadTypes, progress
    <2>2. ASSUME NEW q \in Readers
          PROVE  ReaderInv(q)'
      BY <1>1, <1>3, ReaderStands DEF ReadInv, Still, progress
    <2> QED BY <2>1, <2>2 DEF ReadInv
  <1>4. ASSUME NEW q \in Readers, ReadStep(q), UNCHANGED vars, Witnessed
        PROVE  ReadInv'
    BY <1>1, <1>4, AskInv, ReadRowsInv, ReadHistoryInv, ReadPagesInv, ReadShownInv, AuthoriseInv,
       EndInv, BeginRunInv, StoreInv, FinishInv, ExportFailsInv
    DEF ReadStep
  <1> QED BY <1>2, <1>3, <1>4 DEF ReadNext

\* The readers change nothing that the commands know of.
LEMMA ReadsOnly == ReadSpec => Spec
  <1>1. ReadInit => Init
    BY DEF ReadInit
  <1>2. [ReadNext]_readVars => [Next]_vars
    BY DEF ReadNext, readVars
  <1> QED BY <1>1, <1>2, PTL DEF ReadSpec, Spec

\* The inductive invariant of the reads holds throughout, whatever is committed between
\* their statements.
THEOREM ReadInvariance == ReadSpec => []ReadInv
  <1>1. ReadInit => ReadInv
    BY ReadInitInv
  <1>2. HistoryInv /\ HistoryInv' /\ ReadInv /\ [ReadNext]_readVars => ReadInv'
    BY ReadNextInv
  <1> QED BY <1>1, <1>2, ReadsOnly, HistoryInvariance, PTL DEF ReadSpec

\* routes.ts, getCase: for any number of readers and commands, the history a worker or a
\* customer is given explains the state of the case that was read before it.
THEOREM HistoryCovers == ReadSpec => []HistoryCoversState
  <1>1. ReadInv => HistoryCoversState
    BY DEF ReadInv, ReaderInv, HistoryInHand, HistoryRead, HistoryCoversState
  <1> QED BY <1>1, ReadInvariance, PTL

\* queries.ts: for any number of readers, publications and withdrawals, the public, a
\* published-only token and the search are given nothing that was not public while they
\* were served.
THEOREM PublicOnly == ReadSpec => []OnlyPublishedShown
  <1>1. ReadInv => OnlyPublishedShown
    BY DEF ReadInv, ReaderInv, WasPublic, OnlyPublishedShown, Answered
  <1> QED BY <1>1, ReadInvariance, PTL

\* exports.ts: for any number of registries, exports and failures, the two files of a run
\* recorded as ok explain each other.
THEOREM ExportsExplain == ReadSpec => []ExportExplainsCases
  <1>1. ReadInv => ExportExplainsCases
    BY DEF ReadInv, ReaderInv, RunsRecorded, Complete, ExportExplainsCases
  <1> QED BY <1>1, ReadInvariance, PTL

\* exports.ts 1-8: for any number of registries, whatever fails, nothing is read or stored
\* for a registry without a row in export_runs, and the rows agree with the answers.
THEOREM ExportsLogged == ReadSpec => []ExportLogTruthful
  <1>1. ReadInv => ExportLogTruthful
    BY DEF ReadInv, ReaderInv, RunsRecorded, ResultsRecorded, Complete, ExportLogTruthful, Answered
  <1> QED BY <1>1, ReadInvariance, PTL
=============================================================================
