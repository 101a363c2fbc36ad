----------------------------- MODULE RuleProofs -----------------------------
(***************************************************************************)
(* Proofs of the safety properties of RuleSafety, for every table of       *)
(* rules, every life cycle and every depth of cascades.  Nothing is asked  *)
(* of the rules: a step either leaves the log, or appends one operation to *)
(* it, and opens a level, advances the top one or closes it.               *)
(***************************************************************************)
EXTENDS RuleSafety, TLAPS, WellFoundedInduction, FiniteSetTheorems

(* Induction, from the well-foundedness of the natural numbers, and the    *)
(* functions that are defined by it.                                       *)

LEMMA Least ==
  ASSUME NEW T \in SUBSET Nat, T # {}
  PROVE  \E n \in T : \A m \in T : n <= m
<1> DEFINE Below == {pair \in Nat \X Nat : pair[1] < pair[2]}
<1>1. IsWellFoundedOn(Below, Nat)
  BY NatLessThanWellFounded DEF OpToRel
<1>2. \A m, n \in Nat : <<m, n>> \in Below <=> m < n
  OBVIOUS
<1> HIDE DEF Below
<1>3. PICK n \in T : \A m \in T : <<m, n>> \notin Below
  BY <1>1, WFMin
<1>4. \A m \in T : ~(m < n)
  BY <1>2, <1>3
<1> QED BY <1>4

LEMMA Induction ==
  ASSUME NEW S, 0 \in S, \A n \in Nat : n \in S => n + 1 \in S
  PROVE  \A n \in Nat : n \in S
<1> DEFINE T == {n \in Nat : n \notin S}
<1> SUFFICES ASSUME T # {} PROVE FALSE
  OBVIOUS
<1>1. PICK n \in T : \A m \in T : n <= m
  BY Least
<1>2. n \in Nat /\ n # 0 /\ n - 1 \in Nat /\ n - 1 \notin T
  BY <1>1
<1>3. n - 1 \in S
  BY <1>2
<1>4. (n - 1) + 1 \in S
  BY <1>2, <1>3
<1> QED BY <1>2, <1>4

\* A function is defined by its first value and a step.
Steps(N, V, g) == g \in [1 .. N -> [V -> V]]
Defined(N, V, a, g) ==
  \E f \in [0 .. N -> V] : f[0] = a /\ \A i \in 1 .. N : f[i] = g[i][f[i - 1]]

LEMMA Recursion ==
  ASSUME NEW N \in Nat, NEW V, NEW a \in V, NEW g, Steps(N, V, g)
  PROVE  Defined(N, V, a, g)
<1> USE DEF Steps
<1> DEFINE Solves(n, f) == /\ f \in [0 .. n -> V] /\ f[0] = a
                           /\ \A i \in 1 .. n : f[i] = g[i][f[i - 1]]
           S == {n \in Nat : n <= N => \E f : Solves(n, f)}
<1>1. 0 \in S
  <2>1. Solves(0, [i \in 0 .. 0 |-> a])
    OBVIOUS
  <2> QED BY <2>1
<1>2. ASSUME NEW n \in Nat, n \in S PROVE n + 1 \in S
  <2> SUFFICES ASSUME n + 1 <= N PROVE \E f : Solves(n + 1, f)
    OBVIOUS
  <2>1. PICK f : Solves(n, f)
    BY <1>2
  <2> DEFINE h == [i \in 0 .. n + 1 |-> IF i = n + 1 THEN g[n + 1][f[n]] ELSE f[i]]
  <2>2. Solves(n + 1, h)
    <3>1. f[n] \in V /\ g[n + 1] \in [V -> V]
      BY <2>1
    <3>2. g[n + 1][f[n]] \in V
      BY <3>1
    <3>3. h \in [0 .. n + 1 -> V] /\ h[0] = a
      BY <2>1, <3>2
    <3>4. ASSUME NEW i \in 1 .. n + 1 PROVE h[i] = g[i][h[i - 1]]
      BY <2>1
    <3> QED BY <3>3, <3>4
  <2> QED BY <2>2
<1> HIDE DEF S
<1>3. N \in S
  BY <1>1, <1>2, Induction
<1> QED BY <1>3 DEF S, Defined

-----------------------------------------------------------------------------
(* The work that n rules a level may cause, d levels deep.                 *)

LEMMA Products ==
  ASSUME NEW a \in Nat, NEW b \in Nat, NEW c \in Nat
  PROVE  /\ a * b \in Nat
         /\ a <= c => a * b <= c * b /\ b * a <= b * c
         /\ (a + c) * b = a * b + c * b
OBVIOUS

LEMMA WorkLimitRecursion ==
  ASSUME NEW n \in Nat
  PROVE  /\ WorkLimit(n) \in [0 .. MAX_CASCADE + 1 -> Nat] /\ WorkLimit(n)[0] = 0
         /\ \A d \in 1 .. MAX_CASCADE + 1 :
              WorkLimit(n)[d] = n * (1 + WorkLimit(n)[d - 1])
<1> PICK M : M = MAX_CASCADE + 1
  OBVIOUS
<1>1. M \in Nat
  BY CascadeAssumption
<1> DEFINE g == [i \in 1 .. M |-> [v \in Nat |-> n * (1 + v)]]
<1>2. \A v \in Nat : n * (1 + v) \in Nat
  BY Products
<1>3. g \in [1 .. M -> [Nat -> Nat]] /\ \A i \in 1 .. M, v \in Nat : g[i][v] = n * (1 + v)
  BY <1>2
<1> HIDE DEF g
<1>4. PICK f \in [0 .. M -> Nat] : f[0] = 0 /\ \A i \in 1 .. M : f[i] = g[i][f[i - 1]]
  <2>1. Steps(M, Nat, g)
    BY <1>3 DEF Steps
  <2>2. Defined(M, Nat, 0, g)
    BY <1>1, <2>1, Recursion
  <2> QED BY <2>2 DEF Defined
<1>5. f = [d \in 0 .. M |-> IF d = 0 THEN 0 ELSE n * (1 + f[d - 1])]
  <2> DEFINE h == [d \in 0 .. M |-> IF d = 0 THEN 0 ELSE n * (1 + f[d - 1])]
  <2>1. ASSUME NEW d \in 0 .. M PROVE f[d] = h[d]
    <3>1. CASE d = 0
      BY <1>4, <3>1
    <3>2. CASE d # 0
      <4>1. d \in 1 .. M /\ f[d - 1] \in Nat
        BY <1>1, <3>2
      <4> QED BY <1>3, <1>4, <3>2, <4>1
    <3> QED BY <3>1, <3>2
  <2> QED BY <2>1
<1>6. WorkLimit(n) = [d \in 0 .. M |-> IF d = 0 THEN 0 ELSE n * (1 + WorkLimit(n)[d - 1])]
  BY <1>5, Zenon DEF WorkLimit
<1> PICK W : W = WorkLimit(n)
  OBVIOUS
<1>7. W = [d \in 0 .. M |-> IF d = 0 THEN 0 ELSE n * (1 + W[d - 1])]
  BY <1>6
<1>8. W[0] = 0 /\ \A d \in 1 .. M : W[d] = n * (1 + W[d - 1])
  BY <1>1, <1>7
<1> DEFINE S == {d \in Nat : d <= M => W[d] \in Nat}
<1>9. 0 \in S
  BY <1>8
<1>10. ASSUME NEW d \in Nat, d \in S PROVE d + 1 \in S
  <2> SUFFICES ASSUME d + 1 <= M PROVE W[d + 1] \in Nat
    OBVIOUS
  <2>1. W[d] \in Nat /\ d + 1 \in 1 .. M
    BY <1>1, <1>10
  <2>2. W[d + 1] = n * (1 + W[d])
    BY <1>8, <2>1
  <2> QED BY <1>2, <2>1, <2>2
<1> HIDE DEF S
<1>11. \A d \in Nat : d \in S
  BY <1>9, <1>10, Induction
<1>12. W \in [0 .. M -> Nat]
  BY <1>1, <1>7, <1>11 DEF S
<1> QED BY <1>8, <1>12


LEMMA WorkLimitGrows ==
  ASSUME NEW n \in Nat, NEW m \in Nat, n <= m
  PROVE  \A d \in 0 .. MAX_CASCADE + 1 : WorkLimit(n)[d] <= WorkLimit(m)[d]
<1> PICK M : M = MAX_CASCADE + 1
  OBVIOUS
<1> PICK V, W : V = WorkLimit(n) /\ W = WorkLimit(m)
  OBVIOUS
<1>1. /\ M \in Nat /\ V[0] = 0 /\ W[0] = 0
      /\ V \in [0 .. M -> Nat] /\ \A d \in 1 .. M : V[d] = n * (1 + V[d - 1])
      /\ W \in [0 .. M -> Nat] /\ \A d \in 1 .. M : W[d] = m * (1 + W[d - 1])
  <2>1. M \in Nat
    BY CascadeAssumption
  <2>2. /\ V[0] = 0 /\ V \in [0 .. M -> Nat]
        /\ \A d \in 1 .. M : V[d] = n * (1 + V[d - 1])
    BY WorkLimitRecursion
  <2>3. /\ W[0] = 0 /\ W \in [0 .. M -> Nat]
        /\ \A d \in 1 .. M : W[d] = m * (1 + W[d - 1])
    BY WorkLimitRecursion
  <2> QED BY <2>1, <2>2, <2>3
<1> DEFINE S == {d \in Nat : d <= M => V[d] <= W[d]}
<1>2. 0 \in S
  BY <1>1
<1>3. ASSUME NEW d \in Nat, d \in S PROVE d + 1 \in S
  <2> SUFFICES ASSUME d + 1 <= M PROVE V[d + 1] <= W[d + 1]
    OBVIOUS
  <2>1. /\ d \in 0 .. M /\ d + 1 \in 1 .. M /\ V[d] <= W[d]
    BY <1>1, <1>3
  <2> PICK a, b : a = 1 + V[d] /\ b = 1 + W[d]
    OBVIOUS
  <2>2. a \in Nat /\ b \in Nat /\ a <= b
    <3>1. V[d] \in Nat /\ W[d] \in Nat
      BY <1>1, <2>1
    <3> QED BY <2>1, <3>1
  <2>3. V[d + 1] = n * a /\ W[d + 1] = m * b
    BY <1>1, <2>1
  <2>4. n * a <= n * b /\ n * b <= m * b /\ n * a \in Nat /\ n * b \in Nat /\ m * b \in Nat
    BY <2>2, Products
  <2> QED BY <2>3, <2>4
<1> HIDE DEF S
<1>4. \A d \in Nat : d \in S
  BY <1>2, <1>3, Induction
<1> QED BY <1>1, <1>4 DEF S

-----------------------------------------------------------------------------
(* The rules a level loads.                                                *)

LEMMA MatchingRules ==
  ASSUME rules \in Seq(Rule), NEW state
  PROVE  Matching(state) \in Seq(Rule) /\ Len(Matching(state)) <= Len(rules)
<1> PICK N : N = Len(rules)
  OBVIOUS
<1>1. N \in Nat /\ \A i \in 1 .. N : rules[i] \in Rule
  OBVIOUS
<1> DEFINE Matches(i) == rules[i].on \in {None, state}
           g == [i \in 1 .. N |-> [v \in Seq(Rule) |-> IF Matches(i) THEN Append(v, rules[i]) ELSE v]]
<1>2. ASSUME NEW i \in 1 .. N, NEW v \in Seq(Rule)
      PROVE  /\ Append(v, rules[i]) \in Seq(Rule)
             /\ Len(v) \in Nat /\ Len(Append(v, rules[i])) = Len(v) + 1
  <2>1. rules[i] \in Rule
    BY <1>1
  <2> QED BY <2>1
<1> HIDE DEF Matches
<1>3. Steps(N, Seq(Rule), g)
  BY <1>2 DEF Steps
<1>4. <<>> \in Seq(Rule)
  OBVIOUS
<1>5. PICK f \in [0 .. N -> Seq(Rule)] : f[0] = <<>> /\ \A i \in 1 .. N : f[i] = g[i][f[i - 1]]
  <2> HIDE DEF g
  <2>1. Defined(N, Seq(Rule), <<>>, g)
    BY <1>1, <1>3, <1>4, Recursion
  <2> QED BY <2>1 DEF Defined
<1> DEFINE Among == CHOOSE F : F = [i \in 0 .. Len(rules) |->
                     IF i = 0 THEN <<>>
                     ELSE IF rules[i].on \in {None, state} THEN Append(F[i - 1], rules[i])
                     ELSE F[i - 1]]
<1>6. Matching(state) = Among[Len(rules)]
  BY Zenon DEF Matching
<1>7. f = [i \in 0 .. N |-> IF i = 0 THEN <<>>
                            ELSE IF Matches(i) THEN Append(f[i - 1], rules[i]) ELSE f[i - 1]]
  <2> DEFINE h == [i \in 0 .. N |-> IF i = 0 THEN <<>>
                       ELSE IF Matches(i) THEN Append(f[i - 1], rules[i]) ELSE f[i - 1]]
  <2>1. ASSUME NEW i \in 0 .. N PROVE f[i] = h[i]
    <3>1. CASE i = 0
      BY <1>5, <3>1
    <3>2. CASE i # 0
      <4>1. i \in 1 .. N /\ f[i - 1] \in Seq(Rule)
        BY <1>1, <3>2
      <4> QED BY <1>5, <3>2, <4>1
    <3> QED BY <3>1, <3>2
  <2> QED BY <2>1
<1>8. Among = [i \in 0 .. N |-> IF i = 0 THEN <<>>
                                ELSE IF Matches(i) THEN Append(Among[i - 1], rules[i])
                                ELSE Among[i - 1]]
  BY <1>7, Zenon DEF Matches
<1> HIDE DEF Among, g
<1> DEFINE S == {i \in Nat : i <= N => Among[i] \in Seq(Rule) /\ Len(Among[i]) <= i}
<1>9. 0 \in S
  BY <1>1, <1>8
<1>10. ASSUME NEW i \in Nat, i \in S PROVE i + 1 \in S
  <2> SUFFICES ASSUME i + 1 <= N PROVE Among[i + 1] \in Seq(Rule) /\ Len(Among[i + 1]) <= i + 1
    OBVIOUS
  <2>1. Among[i] \in Seq(Rule) /\ Len(Among[i]) <= i /\ i + 1 \in 1 .. N
    BY <1>1, <1>10
  <2>2. Among[i + 1] = IF Matches(i + 1) THEN Append(Among[i], rules[i + 1]) ELSE Among[i]
    <3>1. i + 1 \in 0 .. N /\ i + 1 # 0 /\ (i + 1) - 1 = i
      BY <1>1
    <3> QED BY <1>8, <3>1
  <2> QED BY <1>2, <2>1, <2>2
<1> HIDE DEF S
<1>11. N \in S
  BY <1>1, <1>9, <1>10, Induction
<1> QED BY <1>1, <1>6, <1>11 DEF S

LEMMA LongestTable == Longest \in Nat /\ \A t \in RuleTables : Len(t) <= Longest
<1>1. PICK t \in RuleTables : \A u \in RuleTables : Len(u) <= Len(t)
  BY LongestAssumption
<1>2. \E n \in {Len(u) : u \in RuleTables} : \A u \in RuleTables : Len(u) <= n
  BY <1>1
<1>3. Longest \in {Len(u) : u \in RuleTables} /\ \A u \in RuleTables : Len(u) <= Longest
  BY <1>2 DEF Longest
<1>4. \A u \in RuleTables : Len(u) \in Nat
  BY RuleTablesAssumption
<1> QED BY <1>3, <1>4

LEMMA LoadableRules ==
  ASSUME rules \in RuleTables
  PROVE  Loadable \in Nat /\ Len(rules) <= Loadable /\ Loadable <= Longest
BY LongestTable, RuleTablesAssumption DEF Loadable

-----------------------------------------------------------------------------

LEMMA SequenceAppended ==
  ASSUME NEW s, IsSequence(s), NEW e
  PROVE  /\ IsSequence(Append(s, e))
         /\ Len(s) \in Nat /\ Len(Append(s, e)) = Len(s) + 1
         /\ \A i \in 1 .. Len(s) : Append(s, e)[i] = s[i]
         /\ Append(s, e)[Len(s) + 1] = e
<1> DEFINE S == {s[i] : i \in 1 .. Len(s)}
           t == Append(s, e)
           T == {t[i] : i \in 1 .. Len(t)}
<1>1. s \in Seq(S)
  BY DEF IsSequence
<1>2. s \in Seq(S \cup {e})
  BY <1>1
<1> HIDE DEF S
<1>3. /\ t \in Seq(S \cup {e}) /\ Len(s) \in Nat /\ Len(t) = Len(s) + 1
      /\ \A i \in 1 .. Len(s) : t[i] = s[i]
      /\ t[Len(s) + 1] = e
  BY <1>2
<1> HIDE DEF t
<1>4. t \in Seq(T)
  BY <1>3
<1> QED BY <1>3, <1>4 DEF IsSequence, t

LEMMA SequenceCut ==
  ASSUME NEW s, IsSequence(s), NEW n \in 0 .. Len(s)
  PROVE  /\ IsSequence(SubSeq(s, 1, n)) /\ Len(SubSeq(s, 1, n)) = n
         /\ \A i \in 1 .. n : SubSeq(s, 1, n)[i] = s[i]
<1> DEFINE S == {s[i] : i \in 1 .. Len(s)}
           t == SubSeq(s, 1, n)
           T == {t[i] : i \in 1 .. Len(t)}
<1>1. s \in Seq(S)
  BY DEF IsSequence
<1> HIDE DEF S
<1>2. t \in Seq(S) /\ Len(t) = n /\ \A i \in 1 .. n : t[i] = s[i]
  BY <1>1
<1> HIDE DEF t
<1>3. t \in Seq(T)
  BY <1>2
<1> QED BY <1>2, <1>3 DEF IsSequence, t

\* A sequence of levels of which one is replaced by a level.
LEMMA SequenceUpdated ==
  ASSUME NEW s, IsSequence(s), NEW n \in 1 .. Len(s), NEW e
  PROVE  LET t == [s EXCEPT ![n] = e] IN
         /\ IsSequence(t) /\ Len(t) = Len(s) /\ t[n] = e
         /\ \A i \in 1 .. Len(s) : i # n => t[i] = s[i]
<1> DEFINE S == {s[i] : i \in 1 .. Len(s)}
           t == [s EXCEPT ![n] = e]
           T == {t[i] : i \in 1 .. Len(t)}
<1>1. s \in Seq(S)
  BY DEF IsSequence
<1>2. s \in Seq(S \cup {e})
  BY <1>1
<1> HIDE DEF S
<1>3. /\ t \in Seq(S \cup {e}) /\ Len(t) = Len(s) /\ t[n] = e
      /\ \A i \in 1 .. Len(s) : i # n => t[i] = s[i]
  BY <1>2
<1> HIDE DEF t
<1>4. t \in Seq(T)
  BY <1>3
<1> QED BY <1>3, <1>4 DEF IsSequence, t

LEMMA LevelAdvanced ==
  ASSUME NEW level, IsLevel(level), NEW todo
  PROVE  [level EXCEPT !.todo = todo] =
           [state |-> level.state, cause |-> level.cause, loaded |-> level.loaded, todo |-> todo]
<1>1. PICK a, b, c, d : level = [state |-> a, cause |-> b, loaded |-> c, todo |-> d]
  BY DEF IsLevel
<1> QED BY <1>1

LEMMA LevelLoaded ==
  ASSUME NEW level, IsLevel(level), NEW loaded, NEW todo
  PROVE  [level EXCEPT !.loaded = loaded, !.todo = todo] =
           [state |-> level.state, cause |-> level.cause, loaded |-> loaded, todo |-> todo]
<1>1. PICK a, b, c, d : level = [state |-> a, cause |-> b, loaded |-> c, todo |-> d]
  BY DEF IsLevel
<1> DEFINE once == [level EXCEPT !.loaded = loaded]
<1>2. once = [state |-> a, cause |-> b, loaded |-> loaded, todo |-> d]
  BY <1>1
<1>3. [level EXCEPT !.loaded = loaded, !.todo = todo] = [once EXCEPT !.todo = todo]
  OBVIOUS
<1> HIDE DEF once
<1>4. [once EXCEPT !.todo = todo] = [state |-> a, cause |-> b, loaded |-> loaded, todo |-> todo]
  BY <1>2
<1> QED BY <1>1, <1>3, <1>4

\* The top level takes its next rule: every level keeps what it is and what it owes.
Alike(s, t) ==
  /\ Len(t) = Len(s) /\ IsSequence(t)
  /\ \A k \in 1 .. Len(s) : /\ IsLevel(t[k]) /\ t[k].state = s[k].state
                            /\ t[k].cause = s[k].cause /\ t[k].loaded = s[k].loaded

LEMMA NextRuleAlike ==
  ASSUME NEW s, IsSequence(s), Len(s) \in Nat, Len(s) > 0, \A k \in 1 .. Len(s) : IsLevel(s[k])
  PROVE  Alike(s, NextRule(s))
<1> DEFINE n == Len(s)
           e == [s[n] EXCEPT !.todo = Tail(@)]
           t == [s EXCEPT ![n] = e]
<1>1. t = NextRule(s)
  BY DEF NextRule
<1>2. n \in 1 .. Len(s)
  OBVIOUS
<1>3. e = [state |-> s[n].state, cause |-> s[n].cause, loaded |-> s[n].loaded, todo |-> Tail(s[n].todo)]
  <2>1. IsLevel(s[n])
    BY <1>2
  <2> QED BY <2>1, LevelAdvanced
<1>4. IsLevel(e) /\ e.state = s[n].state /\ e.cause = s[n].cause /\ e.loaded = s[n].loaded
  BY <1>3 DEF IsLevel
<1> HIDE DEF e
<1>5. /\ IsSequence(t) /\ Len(t) = Len(s) /\ t[n] = e
      /\ \A i \in 1 .. Len(s) : i # n => t[i] = s[i]
  BY <1>2, SequenceUpdated
<1> HIDE DEF t, n
<1>6. Alike(s, t)
  BY <1>4, <1>5 DEF Alike
<1> QED BY <1>1, <1>6

-----------------------------------------------------------------------------
(* What a step does to the log, and the states it goes through. *)

LEMMA InvShaped ==
  ASSUME CascadeInv
  PROVE  /\ Len(log) \in Nat /\ Len(stack) \in Nat /\ Len(stack) > 0
         /\ IsSequence(log) /\ IsSequence(stack)
         /\ \A k \in 1 .. Len(stack) : IsLevel(stack[k])
<1>1. PICK S : stack \in Seq(S)
  BY DEF CascadeInv, Shaped, IsSequence
<1>2. PICK T : log \in Seq(T)
  BY DEF CascadeInv, Shaped, IsSequence
<1>3. stack # <<>>
  BY DEF CascadeInv, Shaped
<1> QED BY <1>1, <1>2, <1>3 DEF CascadeInv, Shaped

\* The part of the invariant that is about states alone.
StatesInv == LatestExists /\ StatesFollowTransitions

\* The latest change before an operation is one of these changes.
LEMMA LatestChange ==
  ASSUME CascadeInv, NEW i \in 1 .. Len(log) + 1
  PROVE  LET earlier == {k \in Changes : k < i} IN earlier # {} => Latest(earlier) \in earlier
BY DEF CascadeInv, LatestExists, Latest

LEMMA LogKept ==
  ASSUME CascadeInv, UNCHANGED log, row'.state = row.state, stack'[1].state = stack[1].state
  PROVE  StatesInv'
<1>1. Changes' = Changes
  BY DEF Changes
<1>2. \A i \in 1 .. Len(log) + 1 : StateBefore(i)' = StateBefore(i)
  BY <1>1 DEF StateBefore
<1>3. Len(log) \in Nat
  BY InvShaped
<1>4. StatesFollowTransitions'
  BY <1>1, <1>2, <1>3 DEF CascadeInv, StatesFollowTransitions, Changes
<1>5. LatestExists'
  BY <1>1 DEF CascadeInv, LatestExists
<1> QED BY <1>4, <1>5 DEF StatesInv

\* One operation more.  Before the operations there are the same changes as before.
LEMMA LogGrown ==
  ASSUME CascadeInv, NEW e, log' = Append(log, e)
  PROVE  LET n == Len(log) IN
         /\ IsSequence(log)' /\ n \in Nat /\ Len(log') = n + 1
         /\ \A i \in 1 .. n : log'[i] = log[i]
         /\ log'[n + 1] = e
         /\ Changes' = Changes \cup (IF e.type = "state_change" THEN {n + 1} ELSE {})
         /\ \A i \in 1 .. n + 1 : {k \in Changes' : k < i} = {k \in Changes : k < i}
<1>1. /\ IsSequence(log)' /\ Len(log) \in Nat /\ Len(log') = Len(log) + 1
      /\ \A i \in 1 .. Len(log) : log'[i] = log[i]
      /\ log'[Len(log) + 1] = e
  BY SequenceAppended, InvShaped DEF IsSequence
<1>2. Changes' = Changes \cup (IF e.type = "state_change" THEN {Len(log) + 1} ELSE {})
  BY <1>1 DEF Changes
<1> QED BY <1>1, <1>2 DEF Changes

LEMMA LogGrownStates ==
  ASSUME CascadeInv, NEW e, log' = Append(log, e), stack'[1].state = stack[1].state,
         e.type # "state_change" => row'.state = row.state,
         e.type = "state_change" =>
           e.from = row.state /\ <<e.from, e.to>> \in Transitions /\ row'.state = e.to
  PROVE  StatesInv'
<1> PICK n : n = Len(log)
  OBVIOUS
<1>1. /\ n \in Nat /\ Len(log') = n + 1
      /\ \A i \in 1 .. n : log'[i] = log[i]
      /\ log'[n + 1] = e
      /\ Changes' = Changes \cup (IF e.type = "state_change" THEN {n + 1} ELSE {})
      /\ \A i \in 1 .. n + 1 : {k \in Changes' : k < i} = {k \in Changes : k < i}
  BY LogGrown DEF Changes
<1>2. \A i \in Changes : i \in 1 .. n
  BY DEF Changes
<1>3. ASSUME NEW i \in 1 .. n + 1 PROVE StateBefore(i)' = StateBefore(i)
  <2> DEFINE earlier == {k \in Changes : k < i}
  <2>1. {k \in Changes' : k < i} = earlier
    BY <1>1, <1>3
  <2>2. earlier # {} => Latest(earlier) \in 1 .. n
    BY <1>2, LatestChange, <1>3
  <2>3. earlier # {} => log'[Latest(earlier)] = log[Latest(earlier)]
    BY <1>1, <2>2
  <2> QED BY <2>1, <2>3 DEF StateBefore
<1>4. row.state = StateBefore(n + 1)
  BY DEF CascadeInv, StatesFollowTransitions
<1>5. LatestExists'
  <2> SUFFICES ASSUME NEW i \in 1 .. n + 2, {k \in Changes' : k < i} # {}
               PROVE  \E m \in {k \in Changes' : k < i} : \A k \in {k \in Changes' : k < i} : k <= m
    BY <1>1 DEF LatestExists
  <2>1. CASE i \in 1 .. n + 1
    BY <1>1, <2>1 DEF CascadeInv, LatestExists
  <2>2. CASE i = n + 2 /\ e.type = "state_change"
    <3>1. n + 1 \in {k \in Changes' : k < i} /\ \A k \in {k \in Changes' : k < i} : k <= n + 1
      BY <1>1, <1>2, <2>2
    <3> QED BY <3>1
  <2>3. CASE i = n + 2 /\ e.type # "state_change"
    <3>1. {k \in Changes' : k < i} = {k \in Changes : k < n + 1} /\ n + 1 \in 1 .. n + 1
      BY <1>1, <1>2, <2>3
    <3> QED BY <3>1 DEF CascadeInv, LatestExists
  <2> QED BY <1>1, <2>1, <2>2, <2>3
<1> DEFINE now == StateBefore(Len(log) + 1)
<1>6. (Len(log) + 1)' = n + 2
  BY <1>1
<1>7. now' = StateBefore(n + 2)'
  BY <1>6 DEF StateBefore
<1>8. CASE e.type = "state_change"
  <2>1. StateBefore(n + 2)' = e.to
    <3> DEFINE earlier == {k \in Changes' : k < n + 2}
    <3>1. n + 1 \in earlier /\ \A k \in earlier : k \in Int /\ k <= n + 1
      BY <1>1, <1>2, <1>8
    <3>2. Latest(earlier) = n + 1
      <4> HIDE DEF earlier
      <4>1. Latest(earlier) \in earlier /\ n + 1 <= Latest(earlier)
        BY <3>1 DEF Latest
      <4> QED BY <1>1, <3>1, <4>1
    <3> QED BY <1>1, <3>1, <3>2 DEF StateBefore
  <2>2. \A i \in Changes' : i \in Changes \/ i = n + 1
    BY <1>1
  <2>3. \A i \in Changes' : log'[i].from = StateBefore(i)' /\ <<log'[i].from, log'[i].to>> \in Transitions
    BY <1>1, <1>2, <1>3, <1>4, <1>8, <2>2 DEF CascadeInv, StatesFollowTransitions
  <2>4. row'.state = now'
    BY <1>8, <1>7, <2>1
  <2>5. StatesFollowTransitions'
    BY <2>3, <2>4 DEF StatesFollowTransitions
  <2> QED BY <1>5, <2>5 DEF StatesInv
<1>9. CASE e.type # "state_change"
  <2>1. Changes' = Changes
    BY <1>1, <1>9
  <2>2. {k \in Changes' : k < n + 2} = {k \in Changes' : k < n + 1}
    BY <1>1, <1>2, <2>1
  <2>3. StateBefore(n + 2)' = StateBefore(n + 1)'
    BY <2>2 DEF StateBefore
  <2>4. \A i \in Changes' : log'[i].from = StateBefore(i)' /\ <<log'[i].from, log'[i].to>> \in Transitions
    BY <1>1, <1>2, <1>3, <2>1 DEF CascadeInv, StatesFollowTransitions
  <2>5. row'.state = now'
    BY <1>1, <1>3, <1>4, <1>9, <1>7, <2>3
  <2>6. StatesFollowTransitions'
    BY <2>4, <2>5 DEF StatesFollowTransitions
  <2> QED BY <1>5, <2>6 DEF StatesInv
<1> QED BY <1>8, <1>9

-----------------------------------------------------------------------------
(* What a step does to the levels. *)

LEMMA RunningOpen == ASSUME Running, UNCHANGED outcome PROVE NothingOpen'
BY DEF Running, NothingOpen, Committed

LEMMA AlikeShaped ==
  ASSUME CascadeInv, Alike(stack, stack'), IsSequence(log)',
         row' = [state |-> row'.state, fields |-> row'.fields]
  PROVE  Shaped' /\ stack'[1].state = stack[1].state /\ Len(stack') = Len(stack)
<1>1. Len(stack) \in Nat /\ Len(stack) > 0
  BY InvShaped
<1>2. /\ Len(stack') = Len(stack) /\ IsSequence(stack')
      /\ \A k \in 1 .. Len(stack') : IsLevel(stack'[k])
      /\ stack'[1].state = stack[1].state
  BY <1>1 DEF Alike
<1>3. stack' # <<>>
  BY <1>1, <1>2
<1> QED BY <1>2, <1>3 DEF Shaped, IsSequence, IsLevel

LEMMA AlikeUnloaded ==
  ASSUME CascadeInv, Alike(stack, stack')
  PROVE  Causes({k \in 1 .. Len(stack) : ~stack[k].loaded})' = Causes({k \in 1 .. Len(stack) : ~stack[k].loaded})
BY DEF Alike, Causes

LEMMA SkipRuleInv == ASSUME CascadeInv, SkipRule PROVE CascadeInv'
<1>1. Alike(stack, stack') /\ UNCHANGED <<row, log, audited, served, outcome>>
  BY InvShaped, NextRuleAlike DEF SkipRule
<1>2. Shaped' /\ stack'[1].state = stack[1].state /\ Len(stack') = Len(stack)
  BY <1>1, AlikeShaped DEF CascadeInv, Shaped, IsSequence
<1>3. StatesInv'
  BY <1>1, <1>2, LogKept
<1>4. AuditOwed'
  <2>1. Causes(2 .. Len(stack))' = Causes(2 .. Len(stack))
    BY <1>1 DEF Alike, Causes
  <2> QED BY <1>1, <2>1 DEF CascadeInv, AuditOwed
<1>5. RulesOwed'
  BY <1>1, AlikeUnloaded DEF CascadeInv, RulesOwed, Changes
<1>6. NothingOpen'
  BY <1>1, RunningOpen DEF SkipRule, Working
<1> QED BY <1>2, <1>3, <1>4, <1>5, <1>6 DEF CascadeInv, StatesInv

\* An action that is over at once is audited at once.
LEMMA ActInv ==
  ASSUME CascadeInv, Working, NEW newRow, NEW type, type # "state_change", NEW set,
         Act(newRow, type, set), newRow = [state |-> row.state, fields |-> newRow.fields]
  PROVE  CascadeInv'
<1> DEFINE e == [rule |-> Current.id, type |-> type, from |-> None, to |-> None, set |-> set]
<1>1. /\ Alike(stack, stack') /\ log' = Append(log, e) /\ row' = newRow
      /\ audited' = audited \cup {Len(log) + 1} /\ UNCHANGED <<served, outcome>>
  BY InvShaped, NextRuleAlike DEF Act, Appended
<1>2. e.type = type
  OBVIOUS
<1> HIDE DEF e
<1>3. IsSequence(log)' /\ Len(log) \in Nat /\ Len(log') = Len(log) + 1 /\ Changes' = Changes
  BY <1>1, <1>2, LogGrown
<1>4. row'.state = row.state /\ row' = [state |-> row'.state, fields |-> row'.fields]
  BY <1>1
<1>5. Shaped' /\ stack'[1].state = stack[1].state /\ Len(stack') = Len(stack)
  BY <1>1, <1>3, <1>4, AlikeShaped
<1>6. StatesInv'
  BY <1>1, <1>2, <1>4, <1>5, LogGrownStates
<1>7. AuditOwed'
  <2>1. Causes(2 .. Len(stack))' = Causes(2 .. Len(stack))
    BY <1>1 DEF Alike, Causes
  <2> QED BY <1>1, <1>3, <2>1 DEF CascadeInv, AuditOwed
<1>8. RulesOwed'
  BY <1>1, <1>3, AlikeUnloaded DEF CascadeInv, RulesOwed
<1>9. NothingOpen'
  BY <1>1, RunningOpen DEF Working
<1> QED BY <1>5, <1>6, <1>7, <1>8, <1>9 DEF CascadeInv, StatesInv

LEMMA ActionsInv ==
  ASSUME CascadeInv, UpdateValues \/ CreateOperation \/ CatalogAction \/ SkipIllegal
  PROVE  CascadeInv'
<1>1. row = [state |-> row.state, fields |-> row.fields]
  BY DEF CascadeInv, Shaped
<1>2. CASE CreateOperation
  BY <1>1, <1>2, ActInv DEF CreateOperation, Acting
<1>3. CASE CatalogAction
  BY <1>1, <1>3, ActInv DEF CatalogAction, Acting
<1>4. CASE SkipIllegal
  BY <1>1, <1>4, ActInv DEF SkipIllegal, Acting
<1>5. CASE UpdateValues
  <2> DEFINE set == StoredSet(Current.set)
             fields == [f \in Fields |-> IF f \in DOMAIN set THEN set[f] ELSE row.fields[f]]
             newRow == [row EXCEPT !.fields = fields]
  <2>1. Working /\ Act(newRow, "rule_update_values", set)
    BY <1>5 DEF UpdateValues, Acting
  <2> HIDE DEF fields
  <2>2. newRow = [state |-> row.state, fields |-> fields]
    <3>1. PICK a, b : row = [state |-> a, fields |-> b]
      BY <1>1
    <3> QED BY <3>1
  <2> HIDE DEF newRow, set
  <2>3. newRow = [state |-> row.state, fields |-> newRow.fields]
    BY <2>2
  <2> QED BY <2>1, <2>3, ActInv
<1> QED BY <1>2, <1>3, <1>4, <1>5

\* The top level has its rules: they are no longer owed.
LEMMA LoadRulesInv == ASSUME CascadeInv, LoadRules PROVE CascadeInv'
<1> PICK n : n = Len(stack)
  OBVIOUS
<1>1. n \in Nat /\ n > 0 /\ IsSequence(stack) /\ \A k \in 1 .. n : IsLevel(stack[k])
  BY InvShaped
<1> DEFINE todo == Matching(Top.state)
           level == [stack[n] EXCEPT !.loaded = TRUE, !.todo = todo]
<1>2. /\ stack' = [stack EXCEPT ![n] = level]
      /\ served' = served \cup {stack[n].cause} /\ ~stack[n].loaded
      /\ Running /\ UNCHANGED <<row, log, audited, outcome>>
  BY DEF LoadRules, Loading, Top
<1> HIDE DEF todo
<1>3. level = [state |-> stack[n].state, cause |-> stack[n].cause, loaded |-> TRUE, todo |-> todo]
  <2>1. IsLevel(stack[n])
    BY <1>1
  <2>2. PICK yes : yes = TRUE
    OBVIOUS
  <2>3. [stack[n] EXCEPT !.loaded = yes, !.todo = todo] =
          [state |-> stack[n].state, cause |-> stack[n].cause, loaded |-> yes, todo |-> todo]
    BY <2>1, LevelLoaded
  <2> QED BY <2>2, <2>3
<1>4. IsLevel(level) /\ level.state = stack[n].state /\ level.cause = stack[n].cause /\ level.loaded
  BY <1>3 DEF IsLevel
<1> HIDE DEF level
<1>5. /\ IsSequence(stack') /\ Len(stack') = n /\ stack'[n] = level
      /\ \A k \in 1 .. n : k # n => stack'[k] = stack[k]
  <2>1. n \in 1 .. Len(stack)
    BY <1>1
  <2> DEFINE S == {stack[i] : i \in 1 .. Len(stack)}
             T == {stack'[i] : i \in 1 .. Len(stack')}
  <2>2. stack \in Seq(S)
    BY <1>1 DEF IsSequence
  <2>3. stack \in Seq(S \cup {level})
    BY <2>2
  <2> HIDE DEF S
  <2>4. /\ stack' \in Seq(S \cup {level}) /\ Len(stack') = n /\ stack'[n] = level
        /\ \A k \in 1 .. n : k # n => stack'[k] = stack[k]
    BY <1>2, <2>1, <2>3
  <2>5. stack' \in Seq(T)
    BY <2>4
  <2> QED BY <2>4, <2>5 DEF IsSequence
<1>6. \A k \in 1 .. n : /\ IsLevel(stack'[k]) /\ stack'[k].state = stack[k].state
                        /\ stack'[k].cause = stack[k].cause
  BY <1>1, <1>4, <1>5
<1>7. Shaped'
  <2>1. stack' # <<>>
    BY <1>1, <1>5
  <2> QED BY <1>2, <1>5, <1>6, <2>1 DEF CascadeInv, Shaped, IsSequence, IsLevel
<1>8. StatesInv'
  BY <1>1, <1>2, <1>6, LogKept
<1>9. AuditOwed'
  <2>1. Causes(2 .. Len(stack))' = Causes(2 .. Len(stack))
    BY <1>1, <1>5, <1>6 DEF Causes
  <2> QED BY <1>2, <2>1 DEF CascadeInv, AuditOwed
<1>10. RulesOwed'
  <2>1. {k \in 1 .. Len(stack') : ~stack'[k].loaded} = {k \in 1 .. n : ~stack[k].loaded} \ {n}
    BY <1>1, <1>4, <1>5
  <2>2. Causes({k \in 1 .. Len(stack) : ~stack[k].loaded})' \cup {stack[n].cause}
          = Causes({k \in 1 .. Len(stack) : ~stack[k].loaded})
    BY <1>1, <1>2, <1>6, <2>1 DEF Causes
  <2> QED BY <1>2, <2>2 DEF CascadeInv, RulesOwed, Changes
<1>11. NothingOpen'
  BY <1>2, RunningOpen
<1> QED BY <1>7, <1>8, <1>9, <1>10, <1>11 DEF CascadeInv, StatesInv

\* A state is set: its operation is owed its record, and the new level its rules.
LEMMA SetStateInv == ASSUME CascadeInv, SetState PROVE CascadeInv'
<1> PICK n : n = Len(stack)
  OBVIOUS
<1> PICK m : m = Len(log)
  OBVIOUS
<1> DEFINE level == Level(Current.to, m + 1)
           e == [rule |-> Current.id, type |-> "state_change", from |-> row.state, to |-> Current.to,
                 set |-> NoFields]
<1>1. n \in Nat /\ n > 0 /\ IsSequence(stack) /\ \A k \in 1 .. n : IsLevel(stack[k])
  BY InvShaped
<1>2. /\ stack' = Append(stack, level) /\ log' = Append(log, e)
      /\ row' = [row EXCEPT !.state = Current.to] /\ <<row.state, Current.to>> \in Transitions
      /\ Running /\ UNCHANGED <<audited, served, outcome>>
  BY DEF SetState, Acting, Working, Appended, Allowed
<1>3. e.type = "state_change" /\ e.from = row.state /\ e.to = Current.to
  OBVIOUS
<1>4. IsLevel(level) /\ level.cause = m + 1 /\ level.loaded = FALSE
  BY DEF Level, IsLevel
<1> HIDE DEF e, level
<1>5. /\ IsSequence(stack') /\ Len(stack') = n + 1 /\ stack'[n + 1] = level
      /\ \A k \in 1 .. n : stack'[k] = stack[k]
  BY <1>1, <1>2, SequenceAppended
<1>6. /\ IsSequence(log)' /\ m \in Nat /\ Len(log') = m + 1 /\ Changes' = Changes \cup {m + 1}
  BY <1>2, <1>3, LogGrown
<1>7. row' = [state |-> Current.to, fields |-> row.fields]
  <2>1. PICK a, b : row = [state |-> a, fields |-> b]
    BY DEF CascadeInv, Shaped
  <2> QED BY <1>2, <2>1
<1>8. row'.state = Current.to /\ row' = [state |-> row'.state, fields |-> row'.fields]
  BY <1>7
<1>9. Shaped'
  <2>1. stack' # <<>> /\ \A k \in 1 .. Len(stack') : IsLevel(stack'[k])
    BY <1>1, <1>4, <1>5
  <2> QED BY <1>5, <1>6, <1>8, <2>1 DEF Shaped, IsSequence, IsLevel
<1>10. StatesInv'
  BY <1>1, <1>2, <1>3, <1>5, <1>8, LogGrownStates
<1>11. AuditOwed'
  <2>1. Causes(2 .. Len(stack))' = Causes(2 .. Len(stack)) \cup {m + 1}
    <3>1. Causes(2 .. Len(stack))' = {stack'[k].cause : k \in 2 .. n + 1}
      BY <1>5 DEF Causes
    <3>2. 2 .. n + 1 = (2 .. n) \cup {n + 1}
      BY <1>1
    <3>3. Causes(2 .. Len(stack)) = {stack[k].cause : k \in 2 .. n}
      BY DEF Causes
    <3>4. \A k \in 2 .. n : stack'[k].cause = stack[k].cause
      BY <1>1, <1>5
    <3> QED BY <1>4, <1>5, <3>1, <3>2, <3>3, <3>4
  <2> QED BY <1>2, <1>6, <2>1 DEF CascadeInv, AuditOwed
<1>12. RulesOwed'
  <2>1. {k \in 1 .. Len(stack') : ~stack'[k].loaded} = {k \in 1 .. n : ~stack[k].loaded} \cup {n + 1}
    BY <1>1, <1>4, <1>5
  <2>2. Causes({k \in 1 .. Len(stack) : ~stack[k].loaded})'
          = Causes({k \in 1 .. Len(stack) : ~stack[k].loaded}) \cup {m + 1}
    BY <1>1, <1>4, <1>5, <2>1 DEF Causes
  <2> QED BY <1>2, <1>6, <2>2 DEF CascadeInv, RulesOwed
<1>13. NothingOpen'
  BY <1>2, RunningOpen
<1> QED BY <1>9, <1>10, <1>11, <1>12, <1>13 DEF CascadeInv, StatesInv

\* A level returns: what it owed is recorded, and its own rules were loaded.
LEMMA ReturnInv == ASSUME CascadeInv, Return PROVE CascadeInv'
<1> PICK n : n = Len(stack)
  OBVIOUS
<1> DEFINE below == SubSeq(stack, 1, n - 1)
<1>1. n \in Nat /\ IsSequence(stack) /\ \A k \in 1 .. n : IsLevel(stack[k])
  BY InvShaped
<1>2. /\ n > 1 /\ stack' = NextRule(below) /\ audited' = audited \cup {stack[n].cause}
      /\ stack[n].loaded /\ Running /\ UNCHANGED <<row, log, served, outcome>>
  BY <1>1 DEF Return, Finished, Depth, Top, AuditedBy
<1>3. IsSequence(below) /\ Len(below) = n - 1 /\ \A k \in 1 .. n - 1 : below[k] = stack[k]
  BY <1>1, <1>2, SequenceCut
<1> HIDE DEF below
<1>4. Alike(below, stack')
  BY <1>1, <1>2, <1>3, NextRuleAlike
<1>5. /\ Len(stack') = n - 1 /\ IsSequence(stack')
      /\ \A k \in 1 .. n - 1 : /\ IsLevel(stack'[k]) /\ stack'[k].state = stack[k].state
                               /\ stack'[k].cause = stack[k].cause
                               /\ stack'[k].loaded = stack[k].loaded
  BY <1>3, <1>4 DEF Alike
<1>6. Shaped'
  <2>1. stack' # <<>>
    BY <1>1, <1>2, <1>5
  <2> QED BY <1>2, <1>5, <2>1 DEF CascadeInv, Shaped, IsSequence, IsLevel
<1>7. StatesInv'
  BY <1>1, <1>2, <1>5, LogKept
<1>8. AuditOwed'
  <2>1. Causes(2 .. Len(stack))' \cup {stack[n].cause} = Causes(2 .. Len(stack))
    <3>1. Causes(2 .. Len(stack))' = {stack'[k].cause : k \in 2 .. n - 1}
      BY <1>5 DEF Causes
    <3>2. 2 .. n = (2 .. n - 1) \cup {n}
      BY <1>1, <1>2
    <3>3. Causes(2 .. Len(stack)) = {stack[k].cause : k \in 2 .. n}
      BY DEF Causes
    <3>4. \A k \in 2 .. n - 1 : stack'[k].cause = stack[k].cause
      BY <1>1, <1>5
    <3> QED BY <3>1, <3>2, <3>3, <3>4
  <2> QED BY <1>2, <2>1 DEF CascadeInv, AuditOwed
<1>9. RulesOwed'
  <2>1. {k \in 1 .. Len(stack') : ~stack'[k].loaded} = {k \in 1 .. n : ~stack[k].loaded}
    BY <1>1, <1>2, <1>5
  <2>2. Causes({k \in 1 .. Len(stack) : ~stack[k].loaded})'
          = Causes({k \in 1 .. Len(stack) : ~stack[k].loaded})
    BY <1>1, <1>5, <2>1 DEF Causes
  <2> QED BY <1>2, <2>2 DEF CascadeInv, RulesOwed, Changes
<1>10. NothingOpen'
  BY <1>2, RunningOpen
<1> QED BY <1>6, <1>7, <1>8, <1>9, <1>10 DEF CascadeInv, StatesInv

\* The end of the transition, and whatever leaves the transaction alone.
LEMMA RestInv ==
  ASSUME CascadeInv, UNCHANGED <<row, stack, log, audited, served>>, NothingOpen'
  PROVE  CascadeInv'
<1>1. StatesInv'
  BY LogKept
<1>2. Shaped' /\ AuditOwed' /\ RulesOwed'
  BY DEF CascadeInv, Shaped, IsSequence, IsLevel, AuditOwed, RulesOwed, Causes, Changes
<1> QED BY <1>1, <1>2 DEF CascadeInv, StatesInv

LEMMA StoppedInv ==
  ASSUME CascadeInv, CascadeLimit \/ NotWritable \/ Commit \/ Fail \/ Reconfigure \/ UNCHANGED vars
  PROVE  CascadeInv'
<1>1. UNCHANGED <<row, stack, log, audited, served>>
  BY DEF CascadeLimit, CutCascade, NotWritable, Commit, Fail, Reconfigure, Stop, vars
<1>2. CASE CascadeLimit \/ NotWritable \/ Fail
  <2>1. outcome' = "rolled back"
    BY <1>2 DEF CascadeLimit, CutCascade, NotWritable, Fail, Stop
  <2> QED BY <1>1, <2>1, RestInv DEF NothingOpen, Committed
<1>3. CASE Commit
  <2>1. Len(stack) \in Nat /\ Len(stack) - 1 = 0 /\ stack[Len(stack)].loaded
    BY <1>3, InvShaped DEF Commit, Finished, Depth, Top
  <2>2. Len(stack) = 1
    BY <2>1
  <2>3. stack[1].loaded
    BY <2>1, <2>2
  <2> QED BY <1>1, <2>2, <2>3, RestInv DEF NothingOpen
<1>4. CASE Reconfigure
  BY <1>1, <1>4, RunningOpen, RestInv DEF Reconfigure
<1>5. CASE UNCHANGED vars
  BY <1>1, <1>5, RestInv DEF CascadeInv, NothingOpen, Committed, vars
<1> QED BY <1>2, <1>3, <1>4, <1>5

-----------------------------------------------------------------------------

(* The types.                                                              *)

LevelType == [state: States, cause: Nat, loaded: BOOLEAN, todo: Seq(Rule)]

LEMMA InHand ==
  ASSUME TypeOK, CascadeInv
  PROVE  /\ stack \in Seq(LevelType) /\ Len(stack) \in Nat /\ Len(stack) > 0 /\ Top \in LevelType
         /\ Top.todo # <<>> => Current \in Rule /\ Tail(Top.todo) \in Seq(Rule)
                               /\ Len(Tail(Top.todo)) = Len(Top.todo) - 1
<1>1. stack \in Seq(LevelType) /\ Len(stack) \in Nat /\ Len(stack) > 0
  BY InvShaped DEF TypeOK, LevelType
<1>2. Top \in LevelType
  BY <1>1 DEF Top
<1>3. Top.todo \in Seq(Rule)
  BY <1>2 DEF LevelType
<1>4. ASSUME Top.todo # <<>>
      PROVE  Current \in Rule /\ Tail(Top.todo) \in Seq(Rule) /\ Len(Tail(Top.todo)) = Len(Top.todo) - 1
  BY <1>3, <1>4 DEF Current
<1> QED BY <1>1, <1>2, <1>4

LEMMA NextRuleTyped ==
  ASSUME NEW s \in Seq(LevelType), Len(s) > 0, s[Len(s)].todo # <<>>
  PROVE  NextRule(s) \in Seq(LevelType)
<1> PICK n : n = Len(s)
  OBVIOUS
<1>1. n \in 1 .. Len(s) /\ s[n] \in LevelType /\ s[n].todo # <<>>
  OBVIOUS
<1>2. s[n].todo \in Seq(Rule)
  BY <1>1 DEF LevelType
<1>3. Tail(s[n].todo) \in Seq(Rule)
  BY <1>1, <1>2
<1>4. [s[n] EXCEPT !.todo = Tail(@)] \in LevelType
  BY <1>1, <1>3 DEF LevelType
<1>5. [s EXCEPT ![n] = [s[n] EXCEPT !.todo = Tail(@)]] \in Seq(LevelType)
  BY <1>1, <1>4
<1>6. NextRule(s) = [s EXCEPT ![n] = [s[n] EXCEPT !.todo = Tail(@)]]
  BY DEF NextRule
<1> QED BY <1>5, <1>6

LEMMA ActTyped ==
  ASSUME TypeOK, CascadeInv, Working, NEW newRow \in Row, NEW type \in LogTypes,
         NEW set \in Payload, Act(newRow, type, set)
  PROVE  TypeOK'
<1>1. Top.todo # <<>> /\ Current \in Rule /\ Len(stack) > 0 /\ stack \in Seq(LevelType)
  BY InHand DEF Working
<1>2. stack' \in Seq(LevelType)
  BY <1>1, NextRuleTyped DEF Act, Top
<1>3. log' \in Seq(LogEntry)
  <2>1. [rule |-> Current.id, type |-> type, from |-> None, to |-> None, set |-> set] \in LogEntry
    BY <1>1 DEF Rule, LogEntry
  <2>2. log \in Seq(LogEntry)
    BY DEF TypeOK
  <2> QED BY <2>1, <2>2 DEF Act, Appended
<1>4. audited' \subseteq Nat
  <2>1. audited' = audited \cup {Len(log) + 1}
    BY DEF Act
  <2>2. Len(log) \in Nat
    BY InvShaped
  <2>3. Len(log) + 1 \in Nat
    BY <2>2
  <2>4. audited \subseteq Nat
    BY DEF TypeOK
  <2> QED BY <2>1, <2>3, <2>4
<1> QED BY <1>2, <1>3, <1>4 DEF TypeOK, Act, LevelType

LEMMA NoFieldsPayload == NoFields \in Payload
BY DEF NoFields, Payload

LEMMA ActionsTyped ==
  ASSUME TypeOK, CascadeInv, UpdateValues \/ CreateOperation \/ CatalogAction \/ SkipIllegal
  PROVE  TypeOK'
<1>1. row \in Row
  BY DEF TypeOK
<1>2. CASE CreateOperation
  BY <1>1, <1>2, ActTyped, NoFieldsPayload DEF CreateOperation, Acting, LogTypes
<1>3. CASE CatalogAction
  BY <1>1, <1>3, ActTyped, NoFieldsPayload DEF CatalogAction, Acting, LogTypes
<1>4. CASE SkipIllegal
  BY <1>1, <1>4, ActTyped, NoFieldsPayload DEF SkipIllegal, Acting, LogTypes
<1>5. CASE UpdateValues
  <2> DEFINE set == StoredSet(Current.set)
             fields == [f \in Fields |-> IF f \in DOMAIN set THEN set[f] ELSE row.fields[f]]
             newRow == [row EXCEPT !.fields = fields]
  <2>1. Working /\ Act(newRow, "rule_update_values", set)
    BY <1>5 DEF UpdateValues, Acting
  <2>2. Current \in Rule
    BY <2>1, InHand DEF Working
  <2>3. PICK F \in SUBSET Fields : Current.set \in [F -> Values]
    BY <2>2 DEF Rule, Payload
  <2>4. set \in [F -> Values] /\ \A f \in F : set[f] \in Stored
    BY <2>3, ValuesAssumption DEF StoredSet, Stored
  <2>5. set \in Payload
    BY <2>4 DEF Payload
  <2>6. DOMAIN set = F
    BY <2>4
  <2> HIDE DEF set
  <2>7. fields \in [Fields -> Stored \cup {None}]
    BY <1>1, <2>4, <2>6 DEF Row
  <2> HIDE DEF fields
  <2>8. newRow \in Row
    BY <1>1, <2>7 DEF Row
  <2>9. "rule_update_values" \in LogTypes
    BY DEF LogTypes
  <2> QED BY <2>1, <2>5, <2>8, <2>9, ActTyped
<1> QED BY <1>2, <1>3, <1>4, <1>5

LEMMA LoadRulesTyped == ASSUME TypeOK, CascadeInv, LoadRules PROVE TypeOK'
<1> PICK n : n = Len(stack)
  OBVIOUS
<1>1. n \in 1 .. Len(stack) /\ stack \in Seq(LevelType) /\ stack[n] \in LevelType
  BY InHand DEF Top
<1>2. Matching(stack[n].state) \in Seq(Rule)
  BY MatchingRules DEF TypeOK
<1> DEFINE level == [stack[n] EXCEPT !.loaded = TRUE, !.todo = Matching(stack[n].state)]
<1>3. level \in LevelType
  BY <1>1, <1>2 DEF LevelType
<1>4. stack' = [stack EXCEPT ![n] = level]
  BY DEF LoadRules, Top
<1> HIDE DEF level
<1>5. stack' \in Seq(LevelType)
  BY <1>1, <1>3, <1>4
<1>6. served' \subseteq Nat
  <2>1. Top.cause \in Nat
    BY InHand DEF LevelType
  <2> QED BY <2>1 DEF LoadRules, TypeOK
<1> QED BY <1>5, <1>6 DEF LoadRules, TypeOK, LevelType

LEMMA SetStateTyped == ASSUME TypeOK, CascadeInv, SetState PROVE TypeOK'
<1>1. Current \in Rule /\ stack \in Seq(LevelType) /\ Len(log) \in Nat
  BY InHand, InvShaped DEF SetState, Acting, Working
<1>2. Current.to \in States /\ row.state \in States
  BY StatesAssumption DEF SetState, Allowed
<1>3. row' \in Row
  BY <1>2 DEF SetState, TypeOK, Row
<1>4. stack' \in Seq(LevelType)
  <2>1. Level(Current.to, Len(log) + 1) \in LevelType
    BY <1>1, <1>2 DEF Level, LevelType
  <2> QED BY <1>1, <2>1 DEF SetState
<1>5. log' \in Seq(LogEntry)
  <2>1. [rule |-> Current.id, type |-> "state_change", from |-> row.state, to |-> Current.to,
         set |-> NoFields] \in LogEntry
    BY <1>1, <1>2, NoFieldsPayload DEF Rule, LogEntry, LogTypes
  <2>2. log \in Seq(LogEntry)
    BY DEF TypeOK
  <2> QED BY <2>1, <2>2 DEF SetState, Appended
<1> QED BY <1>3, <1>4, <1>5 DEF SetState, TypeOK, LevelType

LEMMA ReturnTyped == ASSUME TypeOK, CascadeInv, WorkInv, Return PROVE TypeOK'
<1> DEFINE below == SubSeq(stack, 1, Depth)
<1>1. stack \in Seq(LevelType) /\ Len(stack) \in Nat /\ Depth = Len(stack) - 1 /\ Depth > 0
  BY InHand DEF Return, Depth
<1>2. below \in Seq(LevelType) /\ Len(below) = Depth /\ below[Depth] = stack[Depth]
  BY <1>1
<1>3. stack[Depth].todo # <<>>
  BY <1>1 DEF WorkInv
<1> HIDE DEF below
<1>4. stack' \in Seq(LevelType)
  BY <1>1, <1>2, <1>3, NextRuleTyped DEF Return, below
<1>5. audited' \subseteq Nat
  <2>1. Top.cause \in Nat
    BY InHand DEF LevelType
  <2> QED BY <2>1 DEF Return, AuditedBy, TypeOK
<1> QED BY <1>4, <1>5 DEF Return, TypeOK, LevelType

LEMMA OthersTyped ==
  ASSUME TypeOK, CascadeInv,
         SkipRule \/ CascadeLimit \/ NotWritable \/ Commit \/ Fail \/ Reconfigure \/ UNCHANGED vars
  PROVE  TypeOK'
<1>1. CASE SkipRule
  <2>1. stack' \in Seq(LevelType)
    BY <1>1, InHand, NextRuleTyped DEF SkipRule, Working, Top
  <2> QED BY <1>1, <2>1 DEF SkipRule, TypeOK, LevelType
<1>2. CASE CascadeLimit \/ NotWritable \/ Commit \/ Fail
  BY <1>2 DEF CascadeLimit, CutCascade, NotWritable, Commit, Fail, Stop, TypeOK
<1>3. CASE Reconfigure
  <2>1. rules' \in Seq(Rule)
    BY <1>3, RuleTablesAssumption DEF Reconfigure
  <2>2. applied' \in 0 .. MaxReconfigurations
    <3>1. applied' = applied + 1 /\ applied < MaxReconfigurations
      BY <1>3 DEF Reconfigure
    <3>2. applied \in 0 .. MaxReconfigurations /\ MaxReconfigurations \in Nat
      BY CascadeAssumption DEF TypeOK
    <3> QED BY <3>1, <3>2
  <2> QED BY <1>3, <2>1, <2>2 DEF Reconfigure, TypeOK
<1>4. CASE UNCHANGED vars
  BY <1>4 DEF vars, TypeOK
<1> QED BY <1>1, <1>2, <1>3, <1>4

-----------------------------------------------------------------------------

(* The work of the levels.                                                 *)

LEMMA NextRuleLevels ==
  ASSUME NEW s \in Seq(LevelType), NEW n \in Nat, n = Len(s), n > 0
  PROVE  /\ Len(NextRule(s)) = n /\ \A k \in 1 .. n - 1 : NextRule(s)[k] = s[k]
         /\ NextRule(s)[n].cause = s[n].cause /\ NextRule(s)[n].loaded = s[n].loaded
         /\ NextRule(s)[n].todo = Tail(s[n].todo)
<1> DEFINE level == [s[n] EXCEPT !.todo = Tail(@)]
<1>1. n \in 1 .. Len(s) /\ s[n] \in LevelType
  OBVIOUS
<1>2. level.cause = s[n].cause /\ level.loaded = s[n].loaded /\ level.todo = Tail(s[n].todo)
  BY <1>1 DEF LevelType
<1>3. NextRule(s) = [s EXCEPT ![n] = level]
  BY DEF NextRule
<1> HIDE DEF level
<1>4. Len(NextRule(s)) = n /\ NextRule(s)[n] = level /\ \A k \in 1 .. n - 1 : NextRule(s)[k] = s[k]
  BY <1>1, <1>3
<1> QED BY <1>2, <1>4

\* The numbers that the bounds are made of.
LEMMA WorkNumbers ==
  ASSUME TypeOK, CascadeInv, WorkInv
  PROVE  /\ Loadable \in Nat /\ Len(log) \in Nat /\ Len(stack) \in Nat /\ Len(stack) > 0
         /\ \A d \in 0 .. MAX_CASCADE + 1 : WorkLimit(Loadable)[d] \in Nat
         /\ \A k \in 1 .. Len(stack) :
              /\ stack[k].cause \in Nat /\ stack[k].loaded \in BOOLEAN
              /\ stack[k].todo \in Seq(Rule) /\ Len(stack[k].todo) \in Nat
<1>1. Loadable \in Nat
  BY LoadableRules DEF WorkInv
<1>2. \A d \in 0 .. MAX_CASCADE + 1 : WorkLimit(Loadable)[d] \in Nat
  BY <1>1, WorkLimitRecursion
<1>3. stack \in Seq(LevelType) /\ Len(stack) \in Nat /\ Len(stack) > 0 /\ Len(log) \in Nat
  BY InHand, InvShaped
<1>4. ASSUME NEW k \in 1 .. Len(stack)
      PROVE  /\ stack[k].cause \in Nat /\ stack[k].loaded \in BOOLEAN
             /\ stack[k].todo \in Seq(Rule) /\ Len(stack[k].todo) \in Nat
  <2>1. stack[k] \in LevelType
    BY <1>3
  <2>2. stack[k].todo \in Seq(Rule)
    BY <2>1 DEF LevelType
  <2> QED BY <2>1, <2>2 DEF LevelType
<1> QED BY <1>1, <1>2, <1>3, <1>4

\* A rule that is over answers for one operation at most, or for that and the work of
\* the level it opened.
LEMMA OneRule ==
  ASSUME NEW n \in Nat, NEW t \in Nat, 0 < t, t <= n, NEW w \in Nat, NEW logged \in Int,
         logged <= (n - t) * (1 + w), NEW more \in 0 .. 1 + w
  PROVE  logged + more <= (n - (t - 1)) * (1 + w)
<1> PICK a, b : a = n - t /\ b = 1 + w
  OBVIOUS
<1>1. a \in Nat /\ b \in Nat /\ n - (t - 1) = a + 1
  OBVIOUS
<1>2. (a + 1) * b = a * b + 1 * b /\ a * b \in Nat
  BY <1>1, Products
<1> QED BY <1>1, <1>2

\* A level opened at operation b, of a rule of the level opened at a, and over at c.
LEMMA LevelSpan ==
  ASSUME NEW a \in Nat, NEW b \in Nat, NEW c \in Nat, NEW w \in Nat, c - b <= w
  PROVE  c - a \in Int /\ b - 1 - a \in Int /\ c - a <= (b - 1 - a) + (1 + w)
OBVIOUS

\* The top level takes its next rule.
LEMMA WorkAdvanced ==
  ASSUME TypeOK, CascadeInv, WorkInv, Working, stack' = NextRule(stack),
         UNCHANGED <<rules, applied>>, Len(log') \in {Len(log), Len(log) + 1}
  PROVE  WorkInv'
<1> PICK n, N, M : n = Len(stack) /\ N = Loadable /\ M = MAX_CASCADE
  OBVIOUS
<1>1. /\ n \in Nat /\ n > 0 /\ N \in Nat /\ Len(log) \in Nat /\ M \in Nat /\ n <= M + 2
      /\ \A k \in 1 .. n : stack[k].cause \in Nat /\ Len(stack[k].todo) \in Nat
  BY WorkNumbers, CascadeAssumption DEF WorkInv
<1>2. /\ stack[n].loaded /\ stack[n].todo # <<>>
      /\ Len(Tail(stack[n].todo)) = Len(stack[n].todo) - 1
  BY InHand DEF Working, Top
<1>3. /\ Len(stack') = n /\ \A k \in 1 .. n - 1 : stack'[k] = stack[k]
      /\ stack'[n].cause = stack[n].cause /\ stack'[n].loaded /\ stack'[n].todo = Tail(stack[n].todo)
  BY <1>1, <1>2, InHand, NextRuleLevels
<1>4. Loadable' = N
  BY DEF Loadable
<1>5. ASSUME NEW k \in 1 .. n - 1
      PROVE  /\ stack'[k] = stack[k] /\ stack'[k + 1].cause = stack[k + 1].cause
             /\ LoggedBy(k)' = LoggedBy(k) /\ TakenBy(k, N)' = TakenBy(k, N)
  <2>1. stack'[k] = stack[k] /\ stack'[k + 1].cause = stack[k + 1].cause
    <3>1. CASE k + 1 = n
      BY <1>1, <1>3, <3>1
    <3>2. CASE k + 1 # n
      BY <1>1, <1>3, <3>2
    <3> QED BY <3>1, <3>2
  <2>2. k # n
    BY <1>1
  <2> QED BY <1>3, <2>1, <2>2 DEF LoggedBy, TakenBy
<1>6. n <= M + 1 /\ Len(stack'[n].todo) <= N /\ LoggedBy(n)' <= TakenBy(n, N)'
  <2>1. /\ n <= M + 1 /\ Len(stack[n].todo) <= N /\ Len(stack[n].todo) > 0
        /\ Len(log) - stack[n].cause <= (N - Len(stack[n].todo)) * (1 + WorkLimit(N)[M + 1 - n])
    <3>1. n \in 1 .. n
      BY <1>1
    <3>2. Len(stack[n].todo) > 0
      BY <1>1, <1>2, InHand DEF Top, LevelType
    <3> QED BY <1>2, <3>1, <3>2 DEF WorkInv, LoggedBy, TakenBy
  <2>2. WorkLimit(N)[M + 1 - n] \in Nat
    BY <1>1, <2>1, WorkNumbers
  <2>3. ASSUME NEW more \in 0 .. 1
        PROVE  Len(log) - stack[n].cause + more
                 <= (N - (Len(stack[n].todo) - 1)) * (1 + WorkLimit(N)[M + 1 - n])
    <3>1. /\ more \in 0 .. 1 + WorkLimit(N)[M + 1 - n] /\ Len(log) - stack[n].cause \in Int
          /\ Len(stack[n].todo) \in Nat
      BY <1>1, <2>2
    <3> QED BY <1>1, <2>1, <2>2, <3>1, OneRule
  <2>4. PICK more \in 0 .. 1 : Len(log') = Len(log) + more
    BY <1>1
  <2>5. LoggedBy(n)' = Len(log) - stack[n].cause + more
    BY <1>1, <1>3, <2>4 DEF LoggedBy
  <2>6. TakenBy(n, N)' = (N - (Len(stack[n].todo) - 1)) * (1 + WorkLimit(N)[M + 1 - n])
    BY <1>2, <1>3 DEF TakenBy
  <2>7. Len(stack'[n].todo) <= N
    BY <1>1, <1>2, <1>3, <2>1
  <2>8. LoggedBy(n)' <= TakenBy(n, N)'
    BY <2>3, <2>5, <2>6
  <2> QED BY <2>1, <2>7, <2>8
<1>7. stack'[1].cause = 0
  <2>1. CASE n = 1
    BY <1>3, <2>1 DEF WorkInv
  <2>2. CASE n # 1
    BY <1>1, <1>3, <2>2 DEF WorkInv
  <2> QED BY <2>1, <2>2
<1> DEFINE Bounded(k) ==
             /\ k < n => stack'[k].loaded /\ stack'[k].todo # <<>>
             /\ ~stack'[k].loaded => LoggedBy(k)' = 0
             /\ stack'[k].loaded => /\ k <= M + 1 /\ Len(stack'[k].todo) <= N
                                    /\ LoggedBy(k)' <= TakenBy(k, N)'
<1>8. Bounded(n)
  BY <1>1, <1>3, <1>6
<1>9. \A k \in 1 .. n - 1 : Bounded(k)
  BY <1>1, <1>3, <1>5 DEF WorkInv
<1>10. \A k \in 1 .. n : Bounded(k)
  <2> HIDE DEF Bounded
  <2> QED BY <1>1, <1>8, <1>9
<1> QED BY <1>1, <1>3, <1>4, <1>7, <1>10 DEF WorkInv

\* A level that has its rules has taken none of them yet.
LEMMA LoadRulesWork == ASSUME TypeOK, CascadeInv, WorkInv, LoadRules PROVE WorkInv'
<1> PICK n, N, M : n = Len(stack) /\ N = Loadable /\ M = MAX_CASCADE
  OBVIOUS
<1> DEFINE todo == Matching(stack[n].state)
           level == [stack[n] EXCEPT !.loaded = TRUE, !.todo = todo]
<1>1. /\ n \in Nat /\ n > 0 /\ N \in Nat /\ Len(log) \in Nat /\ M \in Nat
      /\ \A k \in 1 .. n : stack[k].cause \in Nat
  BY WorkNumbers, CascadeAssumption
<1>2. /\ stack' = [stack EXCEPT ![n] = level] /\ ~stack[n].loaded /\ n <= M + 1
      /\ UNCHANGED <<rules, applied, log>>
  BY <1>1 DEF LoadRules, Loading, TooDeep, Depth, Top
<1>3. todo \in Seq(Rule) /\ Len(todo) \in Nat /\ Len(todo) <= N
  <2>1. rules \in Seq(Rule) /\ rules \in RuleTables
    BY DEF TypeOK, WorkInv
  <2>2. todo \in Seq(Rule) /\ Len(todo) <= Len(rules)
    BY <2>1, MatchingRules
  <2> HIDE DEF todo
  <2>3. Len(todo) \in Nat /\ Len(rules) \in Nat
    BY <2>1, <2>2
  <2>4. Len(rules) <= N
    BY <2>1, LoadableRules
  <2> QED BY <1>1, <2>2, <2>3, <2>4
<1> HIDE DEF todo
<1>4. level.cause = stack[n].cause /\ level.loaded /\ level.todo = todo
  <2>1. stack[n] \in LevelType
    BY <1>1, InHand DEF Top
  <2> QED BY <2>1 DEF LevelType
<1> HIDE DEF level
<1>5. Len(stack') = n /\ stack'[n] = level /\ \A k \in 1 .. n : k # n => stack'[k] = stack[k]
  BY <1>1, <1>2, InHand
<1>6. \A k \in 1 .. n : stack'[k].cause = stack[k].cause
  BY <1>4, <1>5
<1>7. Loadable' = N
  BY <1>2 DEF Loadable
<1> DEFINE Bounded(k) ==
             /\ k < n => stack'[k].loaded /\ stack'[k].todo # <<>>
             /\ ~stack'[k].loaded => LoggedBy(k)' = 0
             /\ stack'[k].loaded => /\ k <= M + 1 /\ Len(stack'[k].todo) <= N
                                    /\ LoggedBy(k)' <= TakenBy(k, N)'
<1>8. Bounded(n)
  <2>1. n \in 1 .. Len(stack)
    BY <1>1
  <2>2. LoggedBy(n) = 0
    BY <1>2, <2>1 DEF WorkInv
  <2>3. LoggedBy(n)' = 0
    BY <1>2, <1>4, <1>5, <2>2 DEF LoggedBy
  <2>4. TakenBy(n, N)' = (N - Len(todo)) * (1 + WorkLimit(N)[M + 1 - n])
    BY <1>4, <1>5 DEF TakenBy
  <2>5. WorkLimit(N)[M + 1 - n] \in Nat
    BY <1>1, <1>2, WorkNumbers
  <2>6. N - Len(todo) \in Nat /\ 1 + WorkLimit(N)[M + 1 - n] \in Nat
    BY <1>1, <1>3, <2>5
  <2>7. TakenBy(n, N)' \in Nat
    BY <2>4, <2>6, Products
  <2> QED BY <1>2, <1>3, <1>4, <1>5, <2>3, <2>7
<1>9. ASSUME NEW k \in 1 .. n - 1 PROVE Bounded(k)
  <2>1. stack'[k] = stack[k] /\ stack'[k + 1].cause = stack[k + 1].cause /\ k # n /\ k \in 1 .. Len(stack)
    BY <1>1, <1>5, <1>6
  <2>2. LoggedBy(k)' = LoggedBy(k) /\ TakenBy(k, N)' = TakenBy(k, N)
    BY <1>5, <2>1 DEF LoggedBy, TakenBy
  <2> QED BY <1>1, <2>1, <2>2 DEF WorkInv
<1>10. \A k \in 1 .. n : Bounded(k)
  <2> HIDE DEF Bounded
  <2> QED BY <1>1, <1>8, <1>9
<1>11. stack'[1].cause = 0
  BY <1>1, <1>6 DEF WorkInv
<1> QED BY <1>1, <1>2, <1>5, <1>7, <1>10, <1>11 DEF WorkInv

\* The operation of a rule that opens a level is not in the account of that level.
LEMMA SetStateWork == ASSUME TypeOK, CascadeInv, WorkInv, SetState PROVE WorkInv'
<1> PICK n, N, M : n = Len(stack) /\ N = Loadable /\ M = MAX_CASCADE
  OBVIOUS
<1> DEFINE level == Level(Current.to, Len(log) + 1)
<1>1. /\ n \in Nat /\ n > 0 /\ N \in Nat /\ Len(log) \in Nat /\ M \in Nat
      /\ \A k \in 1 .. n : stack[k].cause \in Nat
  BY WorkNumbers, CascadeAssumption
<1>2. /\ stack' = Append(stack, level) /\ stack[n].loaded /\ stack[n].todo # <<>>
      /\ UNCHANGED <<rules, applied>>
  BY DEF SetState, Acting, Working, Top
<1>3. level.cause = Len(log) + 1 /\ level.loaded = FALSE
  BY DEF Level
<1> HIDE DEF level
<1>4. Len(stack') = n + 1 /\ stack'[n + 1] = level /\ \A k \in 1 .. n : stack'[k] = stack[k]
  BY <1>1, <1>2, InHand
<1>5. Len(log') = Len(log) + 1
  BY LogGrown DEF SetState, Appended
<1>6. n \in 1 .. Len(stack) /\ n <= M + 1
  BY <1>1, <1>2 DEF WorkInv
<1>7. Loadable' = N
  BY <1>2 DEF Loadable
<1> DEFINE Bounded(k) ==
             /\ k < n + 1 => stack'[k].loaded /\ stack'[k].todo # <<>>
             /\ ~stack'[k].loaded => LoggedBy(k)' = 0
             /\ stack'[k].loaded => /\ k <= M + 1 /\ Len(stack'[k].todo) <= N
                                    /\ LoggedBy(k)' <= TakenBy(k, N)'
<1>8. Bounded(n + 1)
  BY <1>1, <1>3, <1>4, <1>5 DEF LoggedBy
<1>9. ASSUME NEW k \in 1 .. n PROVE Bounded(k)
  <2>1. LoggedBy(k)' = LoggedBy(k)
    <3>1. CASE k = n
      BY <1>1, <1>3, <1>4, <3>1 DEF LoggedBy
    <3>2. CASE k # n
      BY <1>1, <1>4, <3>2 DEF LoggedBy
    <3> QED BY <3>1, <3>2
  <2>2. stack'[k] = stack[k] /\ TakenBy(k, N)' = TakenBy(k, N)
    BY <1>4 DEF TakenBy
  <2>3. stack[k].loaded /\ stack[k].todo # <<>>
    BY <1>1, <1>2 DEF WorkInv
  <2> QED BY <1>1, <2>1, <2>2, <2>3 DEF WorkInv
<1>10. \A k \in 1 .. n + 1 : Bounded(k)
  <2> HIDE DEF Bounded
  <2> QED BY <1>1, <1>8, <1>9
<1>11. stack'[1].cause = 0
  BY <1>1, <1>4 DEF WorkInv
<1> QED BY <1>1, <1>2, <1>4, <1>6, <1>7, <1>10, <1>11 DEF WorkInv

\* A level that returns has done no more than the rule that opened it answers for.
LEMMA ReturnWork == ASSUME TypeOK, CascadeInv, WorkInv, Return PROVE WorkInv'
<1> PICK n, N, M : n = Len(stack) - 1 /\ N = Loadable /\ M = MAX_CASCADE
  OBVIOUS
<1> DEFINE below == SubSeq(stack, 1, n)
<1>1. /\ n \in Nat /\ n > 0 /\ Len(stack) = n + 1 /\ N \in Nat /\ Len(log) \in Nat /\ M \in Nat
      /\ \A k \in 1 .. n + 1 : /\ stack[k].cause \in Nat /\ stack[k].todo \in Seq(Rule)
                                /\ Len(stack[k].todo) \in Nat
  BY WorkNumbers, CascadeAssumption DEF Return, Depth
<1>2. /\ stack' = NextRule(below) /\ stack[n + 1].loaded /\ stack[n + 1].todo = <<>>
      /\ UNCHANGED <<rules, applied, log>>
  BY <1>1 DEF Return, Finished, Depth, Top
<1>3. below \in Seq(LevelType) /\ Len(below) = n /\ \A k \in 1 .. n : below[k] = stack[k]
  BY <1>1, InHand
<1> HIDE DEF below
<1>4. n \in 1 .. n /\ n + 1 \in 1 .. n + 1 /\ n \in 1 .. n + 1
  BY <1>1
<1>5. /\ stack[n].loaded /\ stack[n].todo # <<>>
      /\ n + 1 <= M + 1 /\ Len(stack[n].todo) <= N
      /\ LoggedBy(n) <= TakenBy(n, N) /\ LoggedBy(n + 1) <= TakenBy(n + 1, N)
  BY <1>1, <1>2, <1>4 DEF WorkInv
<1>6. Len(Tail(stack[n].todo)) = Len(stack[n].todo) - 1 /\ Len(stack[n].todo) > 0
  BY <1>1, <1>4, <1>5
<1>7. /\ Len(stack') = n /\ \A k \in 1 .. n - 1 : stack'[k] = stack[k]
      /\ stack'[n].cause = stack[n].cause /\ stack'[n].loaded /\ stack'[n].todo = Tail(stack[n].todo)
  <2>1. /\ Len(NextRule(below)) = n /\ \A k \in 1 .. n - 1 : NextRule(below)[k] = below[k]
        /\ NextRule(below)[n].cause = below[n].cause /\ NextRule(below)[n].loaded = below[n].loaded
        /\ NextRule(below)[n].todo = Tail(below[n].todo)
    BY <1>1, <1>3, NextRuleLevels
  <2> QED BY <1>1, <1>2, <1>3, <1>4, <1>5, <2>1
<1>8. Loadable' = N
  BY <1>2 DEF Loadable
<1> DEFINE Bounded(k) ==
             /\ k < n => stack'[k].loaded /\ stack'[k].todo # <<>>
             /\ ~stack'[k].loaded => LoggedBy(k)' = 0
             /\ stack'[k].loaded => /\ k <= M + 1 /\ Len(stack'[k].todo) <= N
                                    /\ LoggedBy(k)' <= TakenBy(k, N)'
<1>9. Bounded(n)
  <2> PICK w, t : w = WorkLimit(N)[M + 1 - n] /\ t = Len(stack[n].todo)
    OBVIOUS
  <2>1. w \in Nat /\ WorkLimit(N)[M - n] \in Nat /\ t \in Nat /\ 0 < t /\ t <= N
    BY <1>1, <1>4, <1>5, <1>6, WorkNumbers
  <2>2. TakenBy(n + 1, N) = w
    <3>1. TakenBy(n + 1, N) = N * (1 + WorkLimit(N)[M - n])
      <4>1. Len(stack[n + 1].todo) = 0 /\ MAX_CASCADE + 1 - (n + 1) = M - n
        BY <1>1, <1>2
      <4>2. N - 0 = N
        BY <1>1
      <4> QED BY <4>1, <4>2 DEF TakenBy
    <3>2. w = N * (1 + WorkLimit(N)[M - n])
      <4>1. M + 1 - n \in 1 .. MAX_CASCADE + 1 /\ (M + 1 - n) - 1 = M - n
        BY <1>1, <1>5
      <4> QED BY <1>1, <4>1, WorkLimitRecursion
    <3> QED BY <3>1, <3>2
  <2>3. LoggedBy(n + 1) = Len(log) - stack[n + 1].cause
    BY <1>1 DEF LoggedBy
  <2>4. LoggedBy(n) = stack[n + 1].cause - 1 - stack[n].cause
    BY <1>1 DEF LoggedBy
  <2>5. LoggedBy(n)' = Len(log) - stack[n].cause
    BY <1>2, <1>7 DEF LoggedBy
  <2>6. LoggedBy(n)' <= LoggedBy(n) + (1 + w) /\ LoggedBy(n) \in Int /\ LoggedBy(n)' \in Int
    <3>1. stack[n].cause \in Nat /\ stack[n + 1].cause \in Nat
      BY <1>1, <1>4
    <3>2. Len(log) - stack[n + 1].cause <= w
      BY <1>5, <2>2, <2>3
    <3> PICK a, b, c : a = stack[n].cause /\ b = stack[n + 1].cause /\ c = Len(log)
      OBVIOUS
    <3>3. a \in Nat /\ b \in Nat /\ c \in Nat /\ w \in Nat /\ c - b <= w
      BY <1>1, <2>1, <3>1, <3>2
    <3>4. c - a \in Int /\ b - 1 - a \in Int /\ c - a <= (b - 1 - a) + (1 + w)
      BY <3>3, LevelSpan
    <3> QED BY <2>4, <2>5, <3>4
  <2>7. TakenBy(n, N) = (N - t) * (1 + w) /\ TakenBy(n, N)' = (N - (t - 1)) * (1 + w)
    BY <1>6, <1>7 DEF TakenBy
  <2>8. LoggedBy(n) + (1 + w) <= (N - (t - 1)) * (1 + w)
    <3>1. 1 + w \in 0 .. 1 + w /\ LoggedBy(n) <= (N - t) * (1 + w)
      BY <1>5, <2>1, <2>7
    <3> QED BY <1>1, <2>1, <2>6, <3>1, OneRule
  <2>9. (N - (t - 1)) * (1 + w) \in Nat
    <3>1. N - (t - 1) \in Nat /\ 1 + w \in Nat
      BY <1>1, <2>1
    <3> QED BY <3>1, Products
  <2>10. LoggedBy(n)' <= TakenBy(n, N)'
    BY <2>1, <2>6, <2>7, <2>8, <2>9
  <2>11. Len(stack'[n].todo) <= N /\ n <= M + 1
    <3>1. Len(stack'[n].todo) = t - 1
      BY <1>6, <1>7
    <3>2. t - 1 <= N
      BY <1>1, <2>1
    <3>3. n <= M + 1
      BY <1>1, <1>5
    <3> QED BY <3>1, <3>2, <3>3
  <2>12. stack'[n].loaded /\ ~(n < n)
    BY <1>1, <1>7
  <2> QED BY <2>10, <2>11, <2>12
<1>10. ASSUME NEW k \in 1 .. n - 1 PROVE Bounded(k)
  <2>1. stack'[k] = stack[k] /\ stack'[k + 1].cause = stack[k + 1].cause /\ k # n /\ k # n + 1
    <3>1. CASE k + 1 = n
      BY <1>1, <1>7, <3>1
    <3>2. CASE k + 1 # n
      <4>1. k + 1 \in 1 .. n - 1
        BY <1>1, <3>2
      <4> QED BY <1>1, <1>7, <4>1
    <3> QED BY <3>1, <3>2
  <2>2. LoggedBy(k)' = LoggedBy(k) /\ TakenBy(k, N)' = TakenBy(k, N)
    BY <1>1, <1>7, <2>1 DEF LoggedBy, TakenBy
  <2> QED BY <1>1, <2>1, <2>2 DEF WorkInv
<1>11. \A k \in 1 .. n : Bounded(k)
  <2> HIDE DEF Bounded
  <2> QED BY <1>1, <1>9, <1>10
<1>12. stack'[1].cause = 0
  <2>1. CASE n = 1
    BY <1>7, <2>1 DEF WorkInv
  <2>2. CASE n # 1
    <3>1. 1 \in 1 .. n - 1
      BY <1>1, <2>2
    <3>2. stack'[1] = stack[1] /\ stack[1].cause = 0
      BY <1>7, <3>1 DEF WorkInv
    <3> QED BY <3>2
  <2> QED BY <2>1, <2>2
<1> QED BY <1>1, <1>2, <1>5, <1>7, <1>8, <1>11, <1>12 DEF WorkInv

\* A longer table makes the bounds wider.
LEMMA OthersWork ==
  ASSUME TypeOK, CascadeInv, WorkInv,
         CascadeLimit \/ NotWritable \/ Commit \/ Fail \/ Reconfigure \/ UNCHANGED vars
  PROVE  WorkInv'
<1> PICK N, L : N = Loadable /\ L = Loadable'
  OBVIOUS
<1>1. stack' = stack /\ log' = log
  BY DEF CascadeLimit, CutCascade, NotWritable, Commit, Fail, Reconfigure, Stop, vars
<1>2. rules' \in RuleTables /\ L \in Nat /\ N \in Nat /\ N <= L
  <2>1. N \in Nat /\ N <= Longest
    BY LoadableRules DEF WorkInv
  <2>2. CASE UNCHANGED <<rules, applied>>
    BY <2>1, <2>2 DEF Loadable, WorkInv
  <2>3. CASE Reconfigure
    <3>1. applied' # 0 /\ rules' \in RuleTables
      <4>1. applied \in 0 .. MaxReconfigurations
        BY DEF TypeOK
      <4> QED BY <2>3, <4>1 DEF Reconfigure
    <3>2. L = Longest
      BY <3>1 DEF Loadable
    <3> QED BY <2>1, <3>1, <3>2, LongestTable
  <2> QED BY <2>2, <2>3
      DEF CascadeLimit, CutCascade, NotWritable, Commit, Fail, Stop, vars
<1>3. ASSUME NEW k \in 1 .. Len(stack), stack[k].loaded
      PROVE  /\ Len(stack[k].todo) <= L /\ LoggedBy(k) <= TakenBy(k, L)
  <2> PICK t, v, w : /\ t = Len(stack[k].todo) /\ v = 1 + WorkLimit(N)[MAX_CASCADE + 1 - k]
                     /\ w = 1 + WorkLimit(L)[MAX_CASCADE + 1 - k]
    OBVIOUS
  <2>1. k <= MAX_CASCADE + 1 /\ t \in Nat /\ t <= N /\ LoggedBy(k) <= (N - t) * v
    BY <1>3, WorkNumbers DEF WorkInv, TakenBy
  <2>2. MAX_CASCADE + 1 - k \in 0 .. MAX_CASCADE + 1
    BY <2>1, WorkNumbers, CascadeAssumption
  <2>3. v \in Nat /\ w \in Nat /\ v <= w
    <3>1. /\ WorkLimit(N)[MAX_CASCADE + 1 - k] \in Nat
          /\ WorkLimit(L)[MAX_CASCADE + 1 - k] \in Nat
      BY <1>2, <2>2, WorkLimitRecursion
    <3>2. WorkLimit(N)[MAX_CASCADE + 1 - k] <= WorkLimit(L)[MAX_CASCADE + 1 - k]
      BY <1>2, <2>2, WorkLimitGrows
    <3> QED BY <3>1, <3>2
  <2>4. N - t \in Nat /\ L - t \in Nat /\ N - t <= L - t /\ t <= L
    BY <1>2, <2>1
  <2>5. /\ (N - t) * v <= (N - t) * w /\ (N - t) * w <= (L - t) * w
        /\ (N - t) * v \in Nat /\ (N - t) * w \in Nat /\ (L - t) * w \in Nat
    BY <2>3, <2>4, Products
  <2>6. LoggedBy(k) \in Int
    <3>1. stack[k].cause \in Nat /\ Len(log) \in Nat /\ Len(stack) \in Nat
      BY WorkNumbers
    <3>2. k # Len(stack) => stack[k + 1].cause \in Nat
      BY <3>1, WorkNumbers
    <3> QED BY <3>1, <3>2 DEF LoggedBy
  <2>7. LoggedBy(k) <= (L - t) * w
    BY <2>1, <2>5, <2>6
  <2> QED BY <2>4, <2>7 DEF TakenBy
<1>4. \A k \in 1 .. Len(stack) : LoggedBy(k)' = LoggedBy(k) /\ TakenBy(k, L)' = TakenBy(k, L)
  BY <1>1 DEF LoggedBy, TakenBy
<1> QED BY <1>1, <1>2, <1>3, <1>4 DEF WorkInv

LEMMA ActionsWork ==
  ASSUME TypeOK, CascadeInv, WorkInv,
         SkipRule \/ UpdateValues \/ CreateOperation \/ CatalogAction \/ SkipIllegal
  PROVE  WorkInv'
<1>1. CASE SkipRule
  BY <1>1, WorkAdvanced DEF SkipRule
<1>2. ASSUME NEW newRow, NEW type, NEW set, Working, Act(newRow, type, set) PROVE WorkInv'
  <2>1. stack' = NextRule(stack) /\ UNCHANGED <<rules, applied>>
    BY <1>2 DEF Act
  <2>2. Len(log') = Len(log) + 1
    BY <1>2, LogGrown DEF Act, Appended
  <2> QED BY <1>2, <2>1, <2>2, WorkAdvanced
<1>3. CASE UpdateValues
  <2>1. PICK newRow, set : Working /\ Act(newRow, "rule_update_values", set)
    BY <1>3 DEF UpdateValues, Acting
  <2> QED BY <1>2, <2>1
<1>4. CASE CreateOperation
  BY <1>2, <1>4 DEF CreateOperation, Acting
<1>5. CASE CatalogAction
  BY <1>2, <1>5 DEF CatalogAction, Acting
<1>6. CASE SkipIllegal
  BY <1>2, <1>6 DEF SkipIllegal, Acting
<1> QED BY <1>1, <1>3, <1>4, <1>5, <1>6

LEMMA Ordered ==
  ASSUME NEW a \in Int, NEW b \in Int, NEW c \in Int, NEW d \in Int, a <= b, b <= c, c <= d
  PROVE  a <= d
OBVIOUS

\* A level that is in hand answers for the levels above it.
LEMMA WorkWithinBound == ASSUME TypeOK, CascadeInv, WorkInv PROVE WorkBounded
<1> PICK n, N, M, W : n = Len(stack) /\ N = Loadable /\ M = MAX_CASCADE /\ W = WorkLimit(N)
  OBVIOUS
<1>1. /\ n \in Nat /\ n > 0 /\ N \in Nat /\ Len(log) \in Nat /\ M \in Nat /\ n <= M + 2
      /\ \A k \in 1 .. n : stack[k].cause \in Nat /\ Len(stack[k].todo) \in Nat
                           /\ stack[k].todo \in Seq(Rule)
  BY WorkNumbers, CascadeAssumption DEF WorkInv
<1>2. W \in [0 .. M + 1 -> Nat] /\ \A d \in 1 .. M + 1 : W[d] = N * (1 + W[d - 1])
  BY <1>1, WorkLimitRecursion
<1>3. ASSUME NEW t \in 0 .. N, NEW d \in 0 .. M
      PROVE  (N - t) * (1 + W[d]) \in Nat /\ (N - t) * (1 + W[d]) <= W[d + 1] /\ W[d + 1] \in Nat
  <2>1. 1 + W[d] \in Nat /\ N - t \in Nat /\ N - t <= N /\ d + 1 \in 1 .. M + 1
    BY <1>1, <1>2
  <2>2. W[d + 1] = N * (1 + W[d])
    BY <1>1, <1>2, <2>1
  <2> QED BY <1>1, <2>1, <2>2, Products
<1> DEFINE Spent(k) == Len(log) - stack[k].cause
           S == {j \in Nat : j < n => Spent(n - j) <= W[M + 2 - (n - j)]}
<1>4. 0 \in S
  <2>1. n \in 1 .. Len(stack) /\ LoggedBy(n) = Spent(n) /\ Spent(n) \in Int /\ n - 0 = n
    BY <1>1 DEF LoggedBy
  <2>2. CASE stack[n].loaded
    <3>1. n <= M + 1 /\ Len(stack[n].todo) \in 0 .. N /\ Spent(n) <= TakenBy(n, N)
      BY <1>1, <2>1, <2>2 DEF WorkInv
    <3>2. M + 1 - n \in 0 .. M /\ M + 2 - n = (M + 1 - n) + 1
      BY <1>1, <3>1
    <3>3. TakenBy(n, N) = (N - Len(stack[n].todo)) * (1 + W[M + 1 - n])
      BY DEF TakenBy
    <3>4. TakenBy(n, N) \in Nat /\ TakenBy(n, N) <= W[M + 2 - n] /\ W[M + 2 - n] \in Nat
      BY <1>3, <3>1, <3>2, <3>3
    <3>5. Spent(n) <= W[M + 2 - n]
      BY <2>1, <3>1, <3>4
    <3> QED BY <2>1, <3>5
  <2>3. CASE ~stack[n].loaded
    <3>1. Spent(n) = 0
      BY <2>1, <2>3 DEF WorkInv
    <3>2. M + 2 - n \in 0 .. M + 1
      BY <1>1
    <3>3. W[M + 2 - n] \in Nat
      BY <1>2, <3>2
    <3> QED BY <2>1, <3>1, <3>3
  <2> QED BY <2>2, <2>3
<1>5. ASSUME NEW j \in Nat, j \in S PROVE j + 1 \in S
  <2> SUFFICES ASSUME j + 1 < n PROVE Spent(n - (j + 1)) <= W[M + 2 - (n - (j + 1))]
    OBVIOUS
  <2> PICK k : k = n - (j + 1)
    OBVIOUS
  <2>1. k \in 1 .. n - 1 /\ k \in 1 .. n /\ k + 1 \in 1 .. n /\ k + 1 = n - j /\ j < n
    BY <1>1
  <2>2. Spent(k + 1) <= W[M + 2 - (k + 1)]
    BY <1>5, <2>1
  <2> PICK a, b, c, w, t : /\ a = stack[k].cause /\ b = stack[k + 1].cause /\ c = Len(log)
                           /\ w = W[M + 1 - k] /\ t = Len(stack[k].todo)
    OBVIOUS
  <2>3. M + 2 - (k + 1) = M + 1 - k /\ M + 1 - k \in 0 .. M + 1 /\ k # n /\ k < n
    BY <1>1, <2>1
  <2>4. a \in Nat /\ b \in Nat /\ c \in Nat /\ w \in Nat
    BY <1>1, <1>2, <2>1, <2>3
  <2>5. stack[k].loaded /\ stack[k].todo # <<>> /\ k <= M + 1 /\ t <= N /\ LoggedBy(k) <= TakenBy(k, N)
    BY <2>1, <2>3 DEF WorkInv
  <2>6. t \in Nat /\ 0 < t
    BY <1>1, <2>1, <2>5
  <2>7. b - 1 - a <= (N - t) * (1 + w)
    BY <2>3, <2>5 DEF LoggedBy, TakenBy
  <2>8. c - a \in Int /\ b - 1 - a \in Int /\ c - a <= (b - 1 - a) + (1 + w)
    <3>1. c - b <= w
      BY <2>2, <2>3
    <3> QED BY <2>4, <3>1, LevelSpan
  <2>9. (b - 1 - a) + (1 + w) <= (N - (t - 1)) * (1 + w)
    <3>1. 1 + w \in 0 .. 1 + w
      BY <2>4
    <3> QED BY <1>1, <2>4, <2>5, <2>6, <2>7, <2>8, <3>1, OneRule
  <2>10. M + 1 - k \in 0 .. M /\ t - 1 \in 0 .. N /\ (M + 1 - k) + 1 = M + 2 - k
    BY <1>1, <2>1, <2>5, <2>6
  <2>11. /\ (N - (t - 1)) * (1 + w) \in Nat /\ W[M + 2 - k] \in Nat
         /\ (N - (t - 1)) * (1 + w) <= W[M + 2 - k]
    BY <1>3, <2>10
  <2>12. c - a <= W[M + 2 - k]
    <3> PICK x, y, z : x = (b - 1 - a) + (1 + w) /\ y = (N - (t - 1)) * (1 + w) /\ z = W[M + 2 - k]
      OBVIOUS
    <3>1. x \in Int
      BY <2>4
    <3>2. c - a <= x /\ x <= y /\ y <= z /\ c - a \in Int /\ y \in Nat /\ z \in Nat
      BY <2>8, <2>9, <2>11
    <3>3. c - a <= z
      BY <3>1, <3>2, Ordered
    <3> QED BY <3>3
  <2> QED BY <2>12
<1> HIDE DEF S
<1>6. n - 1 \in S
  <2>1. \A j \in Nat : j \in S
    BY <1>4, <1>5, Induction
  <2> QED BY <1>1, <2>1
<1>7. Spent(1) <= W[M + 1]
  <2>1. n - (n - 1) = 1 /\ n - 1 < n /\ M + 2 - 1 = M + 1
    BY <1>1
  <2> QED BY <1>6, <2>1 DEF S
<1>8. Spent(1) = Len(log)
  <2>1. stack[1].cause = 0
    BY DEF WorkInv
  <2> QED BY <1>1, <2>1
<1> QED BY <1>7, <1>8 DEF WorkBounded

-----------------------------------------------------------------------------

LEMMA RuleInit == ASSUME Init PROVE CascadeInv
<1>1. PICK s \in States : row = [start EXCEPT !.state = s] /\ stack = <<Level(s, 0)>>
  BY DEF Init
<1>2. log = <<>> /\ audited = {} /\ served = {} /\ outcome = "running" /\ start \in Row
  BY DEF Init
<1>3. row.state = s /\ row = [state |-> row.state, fields |-> row.fields]
  BY <1>1, <1>2 DEF Row
<1>4. Len(stack) = 1 /\ stack[1] = Level(s, 0) /\ stack \in Seq({Level(s, 0)})
  BY <1>1
<1>5. stack[1].state = s /\ stack[1].cause = 0 /\ ~stack[1].loaded /\ IsLevel(stack[1])
  BY <1>4 DEF Level, IsLevel
<1>6. Len(log) = 0 /\ Changes = {}
  BY <1>2 DEF Changes
<1>7. Shaped
  <2>1. IsSequence(log)
    BY <1>2 DEF IsSequence
  <2>2. IsSequence(stack) /\ stack # <<>>
    BY <1>4 DEF IsSequence
  <2> QED BY <1>3, <1>4, <1>5, <2>1, <2>2 DEF Shaped
<1>8. AuditOwed
  BY <1>2, <1>4, <1>6 DEF AuditOwed, Causes
<1>9. RulesOwed
  <2>1. {k \in 1 .. Len(stack) : ~stack[k].loaded} = {1}
    BY <1>4, <1>5
  <2> QED BY <1>2, <1>5, <1>6, <2>1 DEF RulesOwed, Causes
<1>10. LatestExists /\ NothingOpen
  BY <1>2, <1>6 DEF LatestExists, NothingOpen, Committed
<1>11. StatesFollowTransitions
  BY <1>3, <1>5, <1>6 DEF StatesFollowTransitions, StateBefore
<1> QED BY <1>7, <1>8, <1>9, <1>10, <1>11 DEF CascadeInv

LEMMA FirstLevel ==
  ASSUME Init
  PROVE  \E s \in States : Len(stack) = 1 /\ stack[1] = Level(s, 0) /\ stack \in Seq({Level(s, 0)})
BY DEF Init

LEMMA TypeInit == ASSUME Init PROVE TypeOK
<1>1. PICK s \in States : row = [start EXCEPT !.state = s] /\ stack = <<Level(s, 0)>>
  BY DEF Init
<1>2. /\ log = <<>> /\ audited = {} /\ served = {} /\ outcome = "running" /\ start \in Row
      /\ rules \in RuleTables /\ applied = 0 /\ writable \subseteq Fields
  BY DEF Init
<1>3. row \in Row
  BY <1>1, <1>2 DEF Row
<1>4. stack \in Seq(LevelType)
  <2>1. Level(s, 0) \in LevelType
    BY DEF Level, LevelType
  <2> QED BY <1>1, <2>1
<1>5. applied \in 0 .. MaxReconfigurations /\ rules \in Seq(Rule)
  BY <1>2, CascadeAssumption, RuleTablesAssumption
<1> QED BY <1>2, <1>3, <1>4, <1>5 DEF TypeOK, LevelType

LEMMA WorkInit == ASSUME Init PROVE WorkInv
<1>1. PICK s \in States : Len(stack) = 1 /\ stack[1] = Level(s, 0)
  BY FirstLevel
<1>2. stack[1].cause = 0 /\ ~stack[1].loaded
  BY <1>1 DEF Level
<1>3. rules \in RuleTables /\ Len(log) = 0
  BY DEF Init
<1>4. LoggedBy(1) = 0
  BY <1>1, <1>2, <1>3 DEF LoggedBy
<1> QED BY <1>1, <1>2, <1>3, <1>4, CascadeAssumption DEF WorkInv

\* services/rules.ts: at every step of a cascade, of any depth and whatever the rules are
\* replaced by, what is not yet audited or not yet loaded is on the stack, and a level has
\* logged no more than the rules it has taken answer for.
THEOREM RuleInvariance == Spec => []RuleInv
<1>1. Init => RuleInv
  BY RuleInit, TypeInit, WorkInit DEF RuleInv
<1>2. ASSUME RuleInv, [Next]_vars PROVE RuleInv'
  <2>1. TypeOK /\ CascadeInv /\ WorkInv
    BY <1>2 DEF RuleInv
  <2>2. CascadeInv'
    BY <1>2, <2>1, LoadRulesInv, SkipRuleInv, ActionsInv, SetStateInv, ReturnInv, StoppedInv
    DEF Next, Terminated
  <2>3. TypeOK'
    BY <1>2, <2>1, LoadRulesTyped, ActionsTyped, SetStateTyped, ReturnTyped, OthersTyped
    DEF Next, Terminated
  <2>4. WorkInv'
    BY <1>2, <2>1, LoadRulesWork, ActionsWork, SetStateWork, ReturnWork, OthersWork
    DEF Next, Terminated
  <2> QED BY <2>2, <2>3, <2>4 DEF RuleInv
<1> QED BY <1>1, <1>2, PTL DEF Spec

\* rules.ts:129: what a rule stores is of the column's type, a boolean as 0 or 1, whatever value
\* the rule names; and every level, operation and record keeps its type.
THEOREM RulesTypeCorrect == Spec => []TypeOK
<1>1. RuleInv => TypeOK
  BY DEF RuleInv
<1> QED BY <1>1, RuleInvariance, PTL

\* rules.ts:12: whatever rules the table holds or is given meanwhile, a transition causes
\* no more operations than the rules of the largest table do when each sets off as many,
\* as many levels deep as a cascade may be.
THEOREM WorkStaysBounded == Spec => []WorkBounded
<1>1. RuleInv => WorkBounded
  BY WorkWithinBound DEF RuleInv
<1> QED BY <1>1, RuleInvariance, PTL

\* A transition that commits has an audit record for every operation a rule appended, and
\* no record without its operation.
THEOREM ActionsAudited == Spec => []EveryActionAudited
<1>1. RuleInv => EveryActionAudited
  <2> SUFFICES ASSUME CascadeInv, Committed PROVE audited = 1 .. Len(log)
    BY DEF RuleInv, EveryActionAudited
  <2>1. Len(stack) = 1
    BY DEF CascadeInv, NothingOpen
  <2>2. Causes(2 .. Len(stack)) = {}
    BY <2>1 DEF Causes
  <2> QED BY <2>2 DEF CascadeInv, AuditOwed
<1> QED BY <1>1, RuleInvariance, PTL

\* The states the rules put a case through are a chain of configured transitions that ends
\* in the state of the row.
THEOREM StatesChained == Spec => []StatesFollowTransitions
<1>1. RuleInv => StatesFollowTransitions
  BY DEF RuleInv, CascadeInv
<1> QED BY <1>1, RuleInvariance, PTL

\* A transition that commits has run the rules of every state the case went through.
THEOREM CascadesComplete == Spec => []CascadeComplete
<1>1. RuleInv => CascadeComplete
  <2> SUFFICES ASSUME CascadeInv, Committed PROVE served = {0} \cup Changes
    BY DEF RuleInv, CascadeComplete
  <2>1. Len(stack) = 1 /\ stack[1].loaded
    BY DEF CascadeInv, NothingOpen
  <2>2. {k \in 1 .. Len(stack) : ~stack[k].loaded} = {}
    BY <2>1
  <2>3. Causes({k \in 1 .. Len(stack) : ~stack[k].loaded}) = {}
    BY <2>2 DEF Causes
  <2> QED BY <2>3 DEF CascadeInv, RulesOwed
<1> QED BY <1>1, RuleInvariance, PTL

-----------------------------------------------------------------------------
(* What the rules do is done by rule actions of CaseCommands.  The mapped  *)
(* state changes with the log, the row and the outcome only.               *)

LEMMA UpdatesNumber == ASSUME Len(log) \in Nat PROVE Updates \in Nat
<1>1. IsFiniteSet(1 .. Len(log))
  BY FS_Interval
<1>2. IsFiniteSet({i \in 1 .. Len(log) : Updated(log[i])})
  BY <1>1, FS_Subset
<1> QED BY <1>2, FS_CardinalityType DEF Updates

LEMMA UpdatesGrow ==
  ASSUME CascadeInv, NEW e, log' = Append(log, e)
  PROVE  Updates' = IF Updated(e) THEN Updates + 1 ELSE Updates
<1> PICK n : n = Len(log)
  OBVIOUS
<1>1. /\ n \in Nat /\ Len(log') = n + 1 /\ \A i \in 1 .. n : log'[i] = log[i] /\ log'[n + 1] = e
  BY LogGrown
<1> DEFINE before == {i \in 1 .. n : Updated(log[i])}
           after == {i \in 1 .. n + 1 : Updated(log'[i])}
<1>2. IsFiniteSet(before) /\ Cardinality(before) \in Nat
  <2>1. IsFiniteSet(1 .. n)
    BY <1>1, FS_Interval
  <2>2. IsFiniteSet(before)
    BY <2>1, FS_Subset
  <2> QED BY <2>2, FS_CardinalityType
<1>3. after = before \cup (IF Updated(e) THEN {n + 1} ELSE {}) /\ n + 1 \notin before
  BY <1>1 DEF Updated
<1>4. Updates = 1 + Cardinality(before)
  BY DEF Updates
<1>5. Updates' = 1 + Cardinality(after)
  BY <1>1 DEF Updates, Updated
<1> HIDE DEF before, after
<1>6. CASE Updated(e)
  <2>1. after = before \cup {n + 1}
    BY <1>3, <1>6
  <2>2. Cardinality(after) = Cardinality(before) + 1
    BY <1>2, <1>3, <2>1, FS_AddElement
  <2> QED BY <1>2, <1>4, <1>5, <1>6, <2>2
<1>7. CASE ~Updated(e)
  <2>1. after = before
    BY <1>3, <1>7
  <2> QED BY <1>4, <1>5, <1>7, <2>1
<1> QED BY <1>6, <1>7

LEMMA CaseNowIsRow == ASSUME TypeOK, CascadeInv PROVE CaseNow \in Case!Row /\ CaseNow # None
<1>1. Len(log) \in Nat /\ Updates \in Nat
  BY InvShaped, UpdatesNumber
<1>2. row.state \in States /\ row.fields \in [Fields -> Values \cup {None}]
  <2>1. Stored \subseteq Values
    BY ValuesAssumption DEF Stored
  <2>2. row.state \in States /\ row.fields \in [Fields -> Stored \cup {None}]
    BY DEF TypeOK, Row
  <2> QED BY <2>1, <2>2
<1>3. 1 + Updates \in Nat /\ Len(log) + 3 \in Nat
  BY <1>1
<1>4. CaseNow \in Case!Row
  BY <1>2, <1>3 DEF Case!Row, CaseNow, CaseRow
<1> QED BY <1>4, NoCaseAssumption

\* The steps that are not seen: rules are loaded or skipped, a level returns.
LEMMA Unseen ==
  ASSUME UNCHANGED <<start, row, log, outcome>>, stack'[1].state = stack[1].state
  PROVE  UNCHANGED Case!vars
<1>1. UNCHANGED <<CaseNow, CaseBefore, NowAudited, NowEmitted, Transition>>
  BY DEF CaseNow, CaseBefore, CaseRow, NowAudited, NowEmitted, Transition, Updates, Updated
<1>2. UNCHANGED NowLogged
  BY <1>1 DEF NowLogged, RuleOperation
<1>3. UNCHANGED <<Committed, Running>>
  BY DEF Committed, Running
<1>4. UNCHANGED NowWritten
  BY <1>1, <1>2 DEF NowWritten, Written
<1>5. UNCHANGED <<CasesNow, LocksNow, PcNow, CmdNow, SeenNow, WorkNow, AnswerNow>>
  BY <1>1, <1>3, <1>4 DEF CasesNow, LocksNow, PcNow, CmdNow, SeenNow, WorkNow, AnswerNow, One
<1>6. UNCHANGED <<Installed(NowLogged), Installed(NowAudited), Installed(NowEmitted)>>
  BY <1>1, <1>2, <1>3 DEF Installed
<1> QED BY <1>5, <1>6 DEF Case!vars, Case!tables, Case!request

\* The request while its rules run.
LEMMA RequestNow ==
  ASSUME Running
  PROVE  /\ ~Committed
         /\ PcNow = One("recorded") /\ SeenNow = One(CaseBefore) /\ WorkNow = One(NowWritten)
         /\ AnswerNow = One(None) /\ CasesNow = [c \in {"c"} |-> CaseBefore]
         /\ LocksNow = [x \in {"c", "y"} |-> IF x = "c" THEN Request ELSE None]
         /\ Installed(NowLogged) = {} /\ Installed(NowAudited) = {} /\ Installed(NowEmitted) = {}
BY DEF Running, Committed, PcNow, SeenNow, WorkNow, AnswerNow, CasesNow, LocksNow, Installed, One

\* The request when the step has ended it.
LEMMA RequestOver ==
  ASSUME ~Running'
  PROVE  /\ PcNow' = One("done") /\ SeenNow' = One(None) /\ WorkNow' = One(NoWork)
         /\ AnswerNow' = One(IF Committed' THEN "ok" ELSE "error")
         /\ LocksNow' = [x \in {"c", "y"} |-> None]
<1>1. PcNow' = One("done") /\ SeenNow' = One(None) /\ WorkNow' = One(NoWork)
  BY DEF PcNow, SeenNow, WorkNow, One
<1>2. AnswerNow' = One(IF Committed' THEN "ok" ELSE "error")
  BY DEF AnswerNow, One
<1>3. LocksNow' = [x \in {"c", "y"} |-> None]
  BY DEF LocksNow
<1> QED BY <1>1, <1>2, <1>3

LEMMA RequestFinished ==
  ASSUME Running, ~Running', UNCHANGED stack,
         NEW told, told = IF Committed' THEN "ok" ELSE "error"
  PROVE  Case!Finish(Request, told) /\ Case!Release(Request)
<1>1. /\ PcNow' = [PcNow EXCEPT ![Request] = "done"]
      /\ AnswerNow' = [AnswerNow EXCEPT ![Request] = told]
      /\ SeenNow' = [SeenNow EXCEPT ![Request] = None]
  BY RequestNow, RequestOver DEF One
<1>2. WorkNow' = [WorkNow EXCEPT ![Request] = Case!NoWork]
  BY RequestNow, RequestOver DEF One, NoWork, Case!NoWork
<1>3. UNCHANGED CmdNow
  BY DEF CmdNow
<1>4. Case!Finish(Request, told)
  BY <1>1, <1>2, <1>3 DEF Case!Finish
<1>5. Case!Release(Request)
  BY RequestNow, RequestOver DEF Case!Release, Case!Lockable
<1> QED BY <1>4, <1>5

\* A rollback, by an error of any kind.
LEMMA RolledBack ==
  ASSUME Running, Stop("rolled back")
  PROVE  Case!Fail(Request)
<1>1. ~Running' /\ ~Committed' /\ UNCHANGED <<start, row, stack, log>>
  BY DEF Stop, Running, Committed
<1>2. Case!Finish(Request, "error") /\ Case!Release(Request)
  BY <1>1, RequestFinished
<1>3. PcNow[Request] = "recorded"
  BY RequestNow DEF One
<1>4. UNCHANGED <<CasesNow, Installed(NowLogged), Installed(NowAudited), Installed(NowEmitted)>>
  <2>1. UNCHANGED CaseBefore
    BY <1>1 DEF CaseBefore, CaseRow
  <2> QED BY <1>1, <2>1, RequestNow DEF CasesNow, Installed
<1>5. UNCHANGED Case!tables
  BY <1>4 DEF Case!tables
<1> QED BY <1>2, <1>3, <1>5 DEF Case!Fail, Case!Abandon, Case!Undo, Case!Discard

\* A commit: the row, the operations and the events become visible together.
LEMMA CommittedTogether ==
  ASSUME Running, Stop("committed")
  PROVE  Case!Commit(Request)
<1>1. ~Running' /\ Committed' /\ UNCHANGED <<start, row, stack, log>>
  BY DEF Stop, Running, Committed
<1>2. Case!Finish(Request, "ok") /\ Case!Release(Request)
  BY <1>1, RequestFinished
<1>3. PcNow[Request] = "recorded" /\ WorkNow[Request] = NowWritten
  BY RequestNow DEF One
<1>4. UNCHANGED <<CaseNow, NowLogged, NowAudited, NowEmitted>>
  BY <1>1 DEF CaseNow, CaseRow, Updates, Updated, NowLogged, Transition, RuleOperation,
              NowAudited, NowEmitted
<1>5. CasesNow' = [CasesNow EXCEPT !["c"] = CaseNow]
  BY <1>1, <1>4, RequestNow DEF CasesNow
<1>6. /\ Installed(NowLogged)' = Installed(NowLogged) \cup NowLogged
      /\ Installed(NowAudited)' = Installed(NowAudited) \cup NowAudited
      /\ Installed(NowEmitted)' = Installed(NowEmitted) \cup NowEmitted
  BY <1>1, <1>4, RequestNow DEF Installed
<1>7. /\ NowWritten.case = "c" /\ NowWritten.row = CaseNow /\ NowWritten.ops = NowLogged
      /\ NowWritten.audit = NowAudited /\ NowWritten.outbox = NowEmitted
      /\ NowWritten.pid = None /\ NowWritten.projects = FALSE
      /\ CaseNow.year = "y" /\ CaseNow.number = 1
  BY DEF NowWritten, Written, CaseNow, CaseRow
<1>8. [y \in {"y"} |-> 1] = [[y \in {"y"} |-> 1] EXCEPT !["y"] = 1]
  OBVIOUS
<1>9. Case!Install(Request)
  BY <1>2, <1>3, <1>5, <1>6, <1>7, <1>8 DEF Case!Install
<1> QED BY <1>2, <1>3, <1>9 DEF Case!Commit

\* The first level's state is the one the transition led to, as long as it runs.
LEMMA FirstState ==
  ASSUME CascadeInv, Next
  PROVE  stack'[1].state = stack[1].state
<1> PICK n : n = Len(stack)
  OBVIOUS
<1>1. n \in Nat /\ n > 0 /\ IsSequence(stack) /\ \A k \in 1 .. n : IsLevel(stack[k])
  BY InvShaped
<1>2. CASE LoadRules
  <2> DEFINE level == [stack[n] EXCEPT !.loaded = TRUE, !.todo = Matching(Top.state)]
  <2>1. stack' = [stack EXCEPT ![n] = level]
    BY <1>2 DEF LoadRules
  <2>2. level.state = stack[n].state
    <3> IsLevel(stack[n])
      BY <1>1
    <3>1. PICK a, b, c, d : stack[n] = [state |-> a, cause |-> b, loaded |-> c, todo |-> d]
      BY DEF IsLevel
    <3>2. level = [[stack[n] EXCEPT !.loaded = TRUE] EXCEPT !.todo = Matching(Top.state)]
      OBVIOUS
    <3> QED BY <3>1, <3>2
  <2> HIDE DEF level
  <2>3. n \in 1 .. Len(stack)
    BY <1>1
  <2>4. stack'[n] = level /\ \A i \in 1 .. n : i # n => stack'[i] = stack[i]
    BY <1>1, <2>1, <2>3, SequenceUpdated
  <2> QED BY <1>1, <2>2, <2>4
<1>3. CASE SkipRule \/ UpdateValues \/ CreateOperation \/ CatalogAction \/ SkipIllegal
  <2>1. stack' = NextRule(stack)
    BY <1>3 DEF SkipRule, UpdateValues, CreateOperation, CatalogAction, SkipIllegal, Act
  <2> QED BY <1>1, <2>1, NextRuleAlike DEF Alike
<1>4. CASE SetState
  <2>1. stack' = Append(stack, Level(Current.to, Len(log) + 1))
    BY <1>4 DEF SetState
  <2> QED BY <1>1, <2>1, SequenceAppended
<1>5. CASE Return
  <2> DEFINE below == SubSeq(stack, 1, n - 1)
  <2>1. n > 1 /\ stack' = NextRule(below)
    BY <1>1, <1>5 DEF Return, Depth
  <2>2. IsSequence(below) /\ Len(below) = n - 1 /\ \A k \in 1 .. n - 1 : below[k] = stack[k]
    BY <1>1, <2>1, SequenceCut
  <2> HIDE DEF below
  <2>3. Alike(below, stack')
    BY <1>1, <2>1, <2>2, NextRuleAlike
  <2> QED BY <1>1, <2>1, <2>2, <2>3 DEF Alike
<1>6. CASE CascadeLimit \/ NotWritable \/ Commit \/ Fail \/ Reconfigure \/ Terminated
  BY <1>6 DEF CascadeLimit, CutCascade, NotWritable, Commit, Fail, Reconfigure, Stop, Terminated, vars
<1> QED BY <1>2, <1>3, <1>4, <1>5, <1>6 DEF Next

\* What a rule changes of the request's writes.
Rewritten(w, row1, ops, recorded, emitted, fired) ==
  [w EXCEPT !.row = row1, !.ops = ops, !.audit = recorded, !.outbox = emitted, !.fired = fired]
Grown(w, row1, ops, recorded, emitted) ==
  Rewritten(w, row1, w.ops \cup ops, w.audit \cup recorded, w.outbox \cup emitted, w.fired + 1)

\* Field by field.
LEMMA FieldsRewritten ==
  ASSUME NEW a, NEW b, NEW c, NEW d, NEW e, NEW f, NEW g, NEW h, NEW i, NEW j, NEW k,
         NEW c1, NEW d1, NEW e1, NEW f1, NEW k1
  PROVE  Rewritten([case |-> a, pid |-> b, row |-> c, ops |-> d, audit |-> e, outbox |-> f,
                    pend |-> g, projects |-> h, proj |-> i, shown |-> j, fired |-> k],
                   c1, d1, e1, f1, k1) =
         [case |-> a, pid |-> b, row |-> c1, ops |-> d1, audit |-> e1, outbox |-> f1,
          pend |-> g, projects |-> h, proj |-> i, shown |-> j, fired |-> k1]
<1> DEFINE w == [case |-> a, pid |-> b, row |-> c, ops |-> d, audit |-> e, outbox |-> f,
                 pend |-> g, projects |-> h, proj |-> i, shown |-> j, fired |-> k]
           w1 == [w EXCEPT !.row = c1]
           w2 == [w1 EXCEPT !.ops = d1]
           w3 == [w2 EXCEPT !.audit = e1]
           w4 == [w3 EXCEPT !.outbox = f1]
           w5 == [w4 EXCEPT !.fired = k1]
<1>1. w1 = [case |-> a, pid |-> b, row |-> c1, ops |-> d, audit |-> e, outbox |-> f,
            pend |-> g, projects |-> h, proj |-> i, shown |-> j, fired |-> k]
  OBVIOUS
<1> HIDE DEF w1
<1>2. w2 = [case |-> a, pid |-> b, row |-> c1, ops |-> d1, audit |-> e, outbox |-> f,
            pend |-> g, projects |-> h, proj |-> i, shown |-> j, fired |-> k]
  BY <1>1
<1> HIDE DEF w2
<1>3. w3 = [case |-> a, pid |-> b, row |-> c1, ops |-> d1, audit |-> e1, outbox |-> f,
            pend |-> g, projects |-> h, proj |-> i, shown |-> j, fired |-> k]
  BY <1>2
<1> HIDE DEF w3
<1>4. w4 = [case |-> a, pid |-> b, row |-> c1, ops |-> d1, audit |-> e1, outbox |-> f1,
            pend |-> g, projects |-> h, proj |-> i, shown |-> j, fired |-> k]
  BY <1>3
<1> HIDE DEF w4
<1>5. w5 = [case |-> a, pid |-> b, row |-> c1, ops |-> d1, audit |-> e1, outbox |-> f1,
            pend |-> g, projects |-> h, proj |-> i, shown |-> j, fired |-> k1]
  BY <1>4
<1> HIDE DEF w5
<1>6. Rewritten(w, c1, d1, e1, f1, k1) = w5
  BY DEF Rewritten, w1, w2, w3, w4, w5
<1> QED BY <1>5, <1>6

LEMMA FieldsWritten ==
  ASSUME NEW c, NEW d, NEW e, NEW f, NEW k, NEW c1, NEW d1, NEW e1, NEW f1, NEW k1
  PROVE  Rewritten(Written(c, d, e, f, k), c1, d1, e1, f1, k1) = Written(c1, d1, e1, f1, k1)
<1> PICK no : no = FALSE
  OBVIOUS
<1>1. Rewritten([case |-> "c", pid |-> None, row |-> c, ops |-> d, audit |-> e, outbox |-> f,
                 pend |-> None, projects |-> no, proj |-> None, shown |-> {}, fired |-> k],
                c1, d1, e1, f1, k1) =
      [case |-> "c", pid |-> None, row |-> c1, ops |-> d1, audit |-> e1, outbox |-> f1,
       pend |-> None, projects |-> no, proj |-> None, shown |-> {}, fired |-> k1]
  BY FieldsRewritten
<1> QED BY <1>1 DEF Written

LEMMA WorkWritten ==
  ASSUME NEW row1, NEW ops, NEW recorded, NEW emitted
  PROVE  Grown(NowWritten, row1, ops, recorded, emitted) =
         Written(row1, NowLogged \cup ops, NowAudited \cup recorded, NowEmitted \cup emitted,
                 Len(log) + 1)
<1>1. /\ NowWritten.ops = NowLogged /\ NowWritten.audit = NowAudited
      /\ NowWritten.outbox = NowEmitted /\ NowWritten.fired = Len(log)
  BY DEF NowWritten, Written
<1>2. Rewritten(NowWritten, row1, NowLogged \cup ops, NowAudited \cup recorded,
                NowEmitted \cup emitted, Len(log) + 1) =
      Written(row1, NowLogged \cup ops, NowAudited \cup recorded, NowEmitted \cup emitted,
              Len(log) + 1)
  BY FieldsWritten DEF NowWritten
<1> QED BY <1>1, <1>2 DEF Grown

\* A rule's operation, with what it makes of the row and the events it hands over.
LEMMA Recorded ==
  ASSUME TypeOK, CascadeInv, Running, UNCHANGED <<start, outcome>>,
         stack'[1].state = stack[1].state,
         NEW e, log' = Append(log, e), NEW newRow, NEW names,
         CaseNow' = [newRow EXCEPT !.nextOp = @ + 1],
         NowEmitted' = NowEmitted \cup {Event(name) : name \in names}
  PROVE  Case!RuleAction(Request, newRow, LoggedAs(e.type), e.from, e.to, names)
<1> PICK n : n = Len(log)
  OBVIOUS
<1>1. /\ n \in Nat /\ Len(log') = n + 1 /\ \A i \in 1 .. n : log'[i] = log[i] /\ log'[n + 1] = e
  BY LogGrown
<1>2. PICK o : o = [case |-> "c", id |-> n + 3, type |-> LoggedAs(e.type),
                    from |-> e.from, to |-> e.to, by |-> Request]
  OBVIOUS
<1>3. NowLogged' = NowLogged \cup {o}
  <2>1. UNCHANGED Transition
    BY DEF Transition
  <2>2. \A i \in 1 .. n : RuleOperation(i)' = RuleOperation(i)
    BY <1>1 DEF RuleOperation, LoggedAs
  <2>3. RuleOperation(n + 1)' = o
    BY <1>1, <1>2 DEF RuleOperation, LoggedAs
  <2>4. NowLogged = {Transition} \cup {RuleOperation(i) : i \in 1 .. n}
    BY DEF NowLogged
  <2>5. NowLogged' = {Transition'} \cup {RuleOperation(i)' : i \in 1 .. n + 1}
    BY <1>1 DEF NowLogged
  <2>6. 1 .. n + 1 = (1 .. n) \cup {n + 1}
    BY <1>1
  <2> QED BY <2>1, <2>2, <2>3, <2>4, <2>5, <2>6
<1>4. NowAudited' = NowAudited \cup {Event("rule.execute")}
  <2>1. log' # <<>>
    BY <1>1
  <2> QED BY <2>1 DEF NowAudited, Event
<1>5. WorkNow = One(NowWritten) /\ WorkNow' = One(NowWritten')
  BY DEF WorkNow, One, Running
<1>6. NowWritten' = Grown(NowWritten, CaseNow', {o}, {Event("rule.execute")},
                          {Event(name) : name \in names})
  <2>1. NowWritten' = Written(CaseNow', NowLogged \cup {o}, NowAudited \cup {Event("rule.execute")},
                              NowEmitted \cup {Event(name) : name \in names}, n + 1)
    BY <1>1, <1>3, <1>4 DEF NowWritten
  <2> QED BY <2>1, WorkWritten
<1>7. UNCHANGED <<CasesNow, LocksNow, PcNow, CmdNow, SeenNow, AnswerNow>>
  <2>1. UNCHANGED CaseBefore
    BY DEF CaseBefore, CaseRow
  <2>2. UNCHANGED Committed /\ UNCHANGED Running /\ ~Committed
    BY DEF Committed, Running
  <2>3. UNCHANGED CasesNow /\ UNCHANGED LocksNow
    BY <2>1, <2>2 DEF CasesNow, LocksNow
  <2> QED BY <2>1, <2>2, <2>3 DEF PcNow, CmdNow, SeenNow, AnswerNow, One
<1>8. UNCHANGED <<Installed(NowLogged), Installed(NowAudited), Installed(NowEmitted)>>
  BY DEF Installed, Committed, Running
<1>9. PcNow' = [PcNow EXCEPT ![Request] = "recorded"]
  BY <1>7, RequestNow DEF One
<1>10. /\ WorkNow[Request] = NowWritten /\ NowWritten.row = CaseNow /\ NowWritten.case = "c"
       /\ CaseNow # None /\ CaseNow.nextOp = n + 3
  BY <1>5, CaseNowIsRow DEF One, NowWritten, Written, CaseNow, CaseRow
<1>11. Case!OperationId(Request) = n + 3
  BY <1>10 DEF Case!OperationId, Case!CaseRow
<1>12. /\ Case!Events(Request, {"rule.execute"}) = {Event("rule.execute")}
       /\ Case!Events(Request, names) = {Event(name) : name \in names}
  BY <1>10 DEF Case!Events, Event
<1>13. WorkNow' = [WorkNow EXCEPT ![Request] = NowWritten']
  BY <1>5 DEF One
<1> QED BY <1>2, <1>6, <1>7, <1>8, <1>9, <1>10, <1>11, <1>12, <1>13
    DEF Case!RuleAction, Case!Goto, Case!tables, Grown, Rewritten

\* What an UPDATE makes of the case row.
LEMMA RowsRewritten ==
  ASSUME NEW s, NEW f, NEW v, NEW o, NEW x, NEW no
  PROVE  LET r == [year |-> "y", number |-> 1, state |-> s, fields |-> f,
                   version |-> v, nextOp |-> o, published |-> no] IN
         /\ [r EXCEPT !.nextOp = x] = [year |-> "y", number |-> 1, state |-> s, fields |-> f,
                                       version |-> v, nextOp |-> x, published |-> no]
         /\ [r EXCEPT !.version = x] = [year |-> "y", number |-> 1, state |-> s, fields |-> f,
                                        version |-> x, nextOp |-> o, published |-> no]
         /\ [r EXCEPT !.state = x] = [year |-> "y", number |-> 1, state |-> x, fields |-> f,
                                      version |-> v, nextOp |-> o, published |-> no]
         /\ [r EXCEPT !.fields = x] = [year |-> "y", number |-> 1, state |-> s, fields |-> x,
                                       version |-> v, nextOp |-> o, published |-> no]
OBVIOUS

LEMMA RowUpdated ==
  ASSUME NEW r, NEW v, NEW o
  PROVE  [CaseRow(r, v, o) EXCEPT !.nextOp = @ + 1] = CaseRow(r, v, o + 1)
<1> PICK no, s, f : no = FALSE /\ s = r.state /\ f = r.fields
  OBVIOUS
<1> DEFINE c == [year |-> "y", number |-> 1, state |-> s, fields |-> f,
                 version |-> v, nextOp |-> o, published |-> no]
<1>1. c.nextOp = o /\ c = CaseRow(r, v, o)
  BY DEF CaseRow
<1>2. [c EXCEPT !.nextOp = o + 1] = [year |-> "y", number |-> 1, state |-> s, fields |-> f,
                                 version |-> v, nextOp |-> o + 1, published |-> no]
  BY RowsRewritten
<1>3. [c EXCEPT !.nextOp = o + 1] = CaseRow(r, v, o + 1)
  BY <1>2 DEF CaseRow
<1> HIDE DEF c
<1> QED BY <1>1, <1>3

LEMMA RowBumped ==
  ASSUME NEW r, NEW v, NEW o
  PROVE  Case!Bump(CaseRow(r, v, o)) = CaseRow(r, v + 1, o)
<1> PICK no, s, f : no = FALSE /\ s = r.state /\ f = r.fields
  OBVIOUS
<1> DEFINE c == [year |-> "y", number |-> 1, state |-> s, fields |-> f,
                 version |-> v, nextOp |-> o, published |-> no]
<1>1. c.version = v /\ c = CaseRow(r, v, o)
  BY DEF CaseRow
<1>2. [c EXCEPT !.version = v + 1] = [year |-> "y", number |-> 1, state |-> s, fields |-> f,
                                 version |-> v + 1, nextOp |-> o, published |-> no]
  BY RowsRewritten
<1>3. [c EXCEPT !.version = v + 1] = CaseRow(r, v + 1, o)
  BY <1>2 DEF CaseRow
<1> HIDE DEF c
<1> QED BY <1>1, <1>3 DEF Case!Bump

LEMMA RowMoved ==
  ASSUME NEW r, NEW r1, r1.fields = r.fields, NEW v, NEW o
  PROVE  [CaseRow(r, v, o) EXCEPT !.state = r1.state] = CaseRow(r1, v, o)
<1> PICK no, s, f : no = FALSE /\ s = r.state /\ f = r.fields
  OBVIOUS
<1> DEFINE c == [year |-> "y", number |-> 1, state |-> s, fields |-> f,
                 version |-> v, nextOp |-> o, published |-> no]
<1>1. c.state = s /\ c = CaseRow(r, v, o)
  BY DEF CaseRow
<1>2. [c EXCEPT !.state = r1.state] = [year |-> "y", number |-> 1, state |-> r1.state, fields |-> f,
                                 version |-> v, nextOp |-> o, published |-> no]
  BY RowsRewritten
<1>3. [c EXCEPT !.state = r1.state] = CaseRow(r1, v, o)
  BY <1>2 DEF CaseRow
<1> HIDE DEF c
<1> QED BY <1>1, <1>3

LEMMA RowGiven ==
  ASSUME NEW r, NEW r1, r1.state = r.state, NEW v, NEW o
  PROVE  [CaseRow(r, v, o) EXCEPT !.fields = r1.fields] = CaseRow(r1, v, o)
<1> PICK no, s, f : no = FALSE /\ s = r.state /\ f = r.fields
  OBVIOUS
<1> DEFINE c == [year |-> "y", number |-> 1, state |-> s, fields |-> f,
                 version |-> v, nextOp |-> o, published |-> no]
<1>1. c.state = s /\ c = CaseRow(r, v, o)
  BY DEF CaseRow
<1>2. [c EXCEPT !.fields = r1.fields] = [year |-> "y", number |-> 1, state |-> s, fields |-> r1.fields,
                                 version |-> v, nextOp |-> o, published |-> no]
  BY RowsRewritten
<1>3. [c EXCEPT !.fields = r1.fields] = CaseRow(r1, v, o)
  BY <1>2 DEF CaseRow
<1> HIDE DEF c
<1> QED BY <1>1, <1>3

LEMMA EventsEmitted ==
  ASSUME CascadeInv, NEW e, log' = Append(log, e)
  PROVE  NowEmitted' = NowEmitted \cup (IF e.type = "rule_action" THEN {Event("rule.action")} ELSE {})
<1> PICK n : n = Len(log)
  OBVIOUS
<1>1. /\ n \in Nat /\ Len(log') = n + 1 /\ \A i \in 1 .. n : log'[i] = log[i] /\ log'[n + 1] = e
  BY LogGrown
<1>2. (\E i \in 1 .. n + 1 : log'[i].type = "rule_action") <=>
        (\E i \in 1 .. n : log[i].type = "rule_action") \/ e.type = "rule_action"
  BY <1>1
<1> QED BY <1>1, <1>2 DEF NowEmitted, Event

\* There is room for another rule action: the bound is what WorkBounded says.
LEMMA RoomForIt ==
  ASSUME CascadeInv, WorkInv, WorkBounded', Running, UNCHANGED <<rules, applied>>,
         NEW e, log' = Append(log, e)
  PROVE  Case!RulesRun(Request)
<1>1. Loadable' = Loadable /\ Loadable \in Nat /\ Longest \in Nat /\ Loadable <= Longest
  BY LoadableRules, LongestTable DEF WorkInv, Loadable
<1>2. Len(log) \in Nat /\ Len(log') = Len(log) + 1
  BY LogGrown
<1>3. MAX_CASCADE + 1 \in 0 .. MAX_CASCADE + 1
  BY CascadeAssumption
<1>4. /\ WorkLimit(Loadable)[MAX_CASCADE + 1] \in Nat /\ WorkLimit(Longest)[MAX_CASCADE + 1] \in Nat
      /\ WorkLimit(Loadable)[MAX_CASCADE + 1] <= WorkLimit(Longest)[MAX_CASCADE + 1]
  BY <1>1, <1>3, WorkLimitRecursion, WorkLimitGrows
<1>5. Len(log') <= WorkLimit(Loadable)[MAX_CASCADE + 1]
  BY <1>1 DEF WorkBounded, WorkLimit
<1>6. Len(log) < WorkLimit(Longest)[MAX_CASCADE + 1]
  BY <1>2, <1>4, <1>5
<1>7. PcNow[Request] = "recorded" /\ WorkNow[Request].fired = Len(log)
  BY RequestNow DEF One, NowWritten, Written
<1>8. CmdNow[Request].kind = "transition"
  BY DEF CmdNow, One
<1> QED BY <1>6, <1>7, <1>8 DEF Case!RulesRun, Case!Kind

\* The operations that leave the row alone.
LEMMA RecordOnly ==
  ASSUME TypeOK, CascadeInv, WorkInv, WorkBounded', Working,
         stack'[1].state = stack[1].state,
         NEW type \in {"rule_operation", "rule_action", "skipped"}, Act(row, type, NoFields)
  PROVE  Case!RuleRecord(Request)
<1> PICK e : e = [rule |-> Current.id, type |-> type, from |-> None, to |-> None, set |-> NoFields]
  OBVIOUS
<1>1. e.type = type /\ e.from = None /\ e.to = None /\ e.set = NoFields /\ LoggedAs(type) = "rule_action"
  BY DEF LoggedAs
<1>2. /\ Running /\ log' = Append(log, e) /\ row' = row
      /\ UNCHANGED <<rules, applied, start, outcome>>
  BY DEF Act, Appended, Working
<1>3. PICK n, u : n = Len(log) /\ u = Updates
  OBVIOUS
<1>4. n \in Nat /\ u \in Nat /\ Len(log') = n + 1 /\ Updates' = u
  <2>1. ~Updated(e)
    BY <1>1 DEF Updated, NoFields
  <2> QED BY <1>2, <1>3, <2>1, UpdatesGrow, UpdatesNumber, LogGrown
<1>5. CaseNow' = [CaseNow EXCEPT !.nextOp = @ + 1]
  <2>1. CaseNow' = CaseRow(row, 1 + u, n + 1 + 3)
    BY <1>2, <1>4 DEF CaseNow, CaseRow
  <2>2. [CaseNow EXCEPT !.nextOp = @ + 1] = CaseRow(row, 1 + u, n + 3 + 1)
    BY <1>3, RowUpdated DEF CaseNow
  <2>3. n + 1 + 3 = n + 3 + 1
    BY <1>4
  <2> QED BY <2>1, <2>2, <2>3
<1>6. PICK events \in {{}, {"rule.action"}} :
        NowEmitted' = NowEmitted \cup {Event(name) : name \in events}
  BY <1>2, EventsEmitted
<1>7. Case!RuleAction(Request, CaseNow, LoggedAs(e.type), e.from, e.to, events)
  BY <1>2, <1>5, <1>6, Recorded
<1>8. Case!RulesRun(Request)
  BY <1>2, RoomForIt
<1>9. WorkNow[Request].row = CaseNow
  BY <1>2, RequestNow DEF One, NowWritten, Written
<1> QED BY <1>1, <1>6, <1>7, <1>8, <1>9 DEF Case!RuleRecord

LEMMA ValuesUpdated ==
  ASSUME TypeOK, CascadeInv, WorkInv, WorkBounded', stack'[1].state = stack[1].state, UpdateValues
  PROVE  Case!RuleUpdateValues(Request)
<1> PICK set : set = StoredSet(Current.set)
  OBVIOUS
<1> PICK e : e = [rule |-> Current.id, type |-> "rule_update_values", from |-> None, to |-> None,
                  set |-> set]
  OBVIOUS
<1>1. /\ e.type = "rule_update_values" /\ e.from = None /\ e.to = None /\ e.set = set
      /\ LoggedAs(e.type) = "rule_update_values"
  BY DEF LoggedAs
<1>2. /\ Running /\ log' = Append(log, e) /\ UNCHANGED <<rules, applied, start, outcome>>
      /\ row' = [row EXCEPT !.fields =
                   [f \in Fields |-> IF f \in DOMAIN set THEN set[f] ELSE row.fields[f]]]
  BY DEF UpdateValues, Act, Appended, Acting, Working
<1>3. row'.state = row.state /\ row'.fields = Case!Overlay(set, row.fields)
  <2>1. row \in Row
    BY DEF TypeOK
  <2> QED BY <1>2, <2>1 DEF Row, Case!Overlay
<1>4. set \in Case!Payload /\ row.fields = [f \in Fields |-> row.fields[f]]
  <2>1. Current \in Rule
    BY InHand DEF UpdateValues, Acting, Working
  <2>2. PICK F \in SUBSET Fields : Current.set \in [F -> Values]
    BY <2>1 DEF Rule, Payload
  <2>3. set \in [F -> Values]
    BY <2>2, ValuesAssumption DEF StoredSet
  <2>4. row.fields \in [Fields -> Stored \cup {None}]
    BY DEF TypeOK, Row
  <2> QED BY <2>3, <2>4 DEF Case!Payload
<1>5. PICK n, u : n = Len(log) /\ u = Updates
  OBVIOUS
<1>6. n \in Nat /\ u \in Nat /\ Len(log') = n + 1
      /\ Updates' = IF DOMAIN set = {} THEN u ELSE u + 1
  <2>1. Updated(e) <=> DOMAIN set # {}
    BY <1>1 DEF Updated
  <2> QED BY <1>2, <1>5, <2>1, UpdatesGrow, UpdatesNumber, LogGrown
<1> DEFINE newRow == IF DOMAIN set = {} THEN CaseNow
                     ELSE [Case!Bump(CaseNow) EXCEPT !.fields = Case!Overlay(set, @)]
<1>7. CaseNow' = [newRow EXCEPT !.nextOp = @ + 1]
  <2> PICK r : r = row'
    OBVIOUS
  <2>1. CaseNow = CaseRow(row, 1 + u, n + 3)
    BY <1>5 DEF CaseNow
  <2>2. CASE DOMAIN set = {}
    <3>1. r.fields = row.fields
      BY <1>3, <1>4, <2>2 DEF Case!Overlay
    <3>2. CaseNow' = CaseRow(row, 1 + u, n + 1 + 3)
      BY <1>3, <1>6, <2>2, <3>1 DEF CaseNow, CaseRow
    <3>3. [newRow EXCEPT !.nextOp = @ + 1] = CaseRow(row, 1 + u, n + 3 + 1)
      BY <2>1, <2>2, RowUpdated
    <3>4. n + 1 + 3 = n + 3 + 1
      BY <1>6
    <3> QED BY <3>2, <3>3, <3>4
  <2>3. CASE DOMAIN set # {}
    <3>1. Case!Bump(CaseNow) = CaseRow(row, 1 + u + 1, n + 3)
      BY <2>1, RowBumped
    <3>2. CaseRow(row, 1 + u + 1, n + 3).fields = row.fields
      BY DEF CaseRow
    <3>3. newRow = [CaseRow(row, 1 + u + 1, n + 3) EXCEPT !.fields = r.fields]
      BY <1>3, <2>3, <3>1, <3>2
    <3> HIDE DEF newRow
    <3>4. newRow = CaseRow(r, 1 + u + 1, n + 3)
      BY <1>3, <3>3, RowGiven
    <3>5. [newRow EXCEPT !.nextOp = @ + 1] = CaseRow(r, 1 + u + 1, n + 3 + 1)
      BY <3>4, RowUpdated
    <3>6. CaseNow' = CaseRow(r, 1 + (u + 1), n + 1 + 3)
      BY <1>6, <2>3 DEF CaseNow, CaseRow
    <3>7. n + 1 + 3 = n + 3 + 1 /\ 1 + (u + 1) = 1 + u + 1
      BY <1>6
    <3> QED BY <3>5, <3>6, <3>7
  <2> QED BY <2>2, <2>3
<1>8. NowEmitted' = NowEmitted \cup {Event(name) : name \in {}}
  BY <1>1, <1>2, EventsEmitted
<1> HIDE DEF newRow
<1>9. Case!RuleAction(Request, newRow, LoggedAs(e.type), e.from, e.to, {})
  BY <1>2, <1>7, <1>8, Recorded
<1>10. Case!RulesRun(Request)
  BY <1>2, RoomForIt
<1>11. WorkNow[Request].row = CaseNow
  BY <1>2, RequestNow DEF One, NowWritten, Written
<1> QED BY <1>1, <1>4, <1>9, <1>10, <1>11 DEF Case!RuleUpdateValues, newRow

LEMMA StateSet ==
  ASSUME TypeOK, CascadeInv, WorkInv, WorkBounded', stack'[1].state = stack[1].state, SetState
  PROVE  Case!RuleSetState(Request)
<1> PICK s, e : /\ s = Current.to
                /\ e = [rule |-> Current.id, type |-> "state_change", from |-> row.state,
                        to |-> s, set |-> NoFields]
  OBVIOUS
<1>1. /\ e.type = "state_change" /\ e.from = row.state /\ e.to = s
      /\ LoggedAs(e.type) = "state_change"
  BY DEF LoggedAs
<1>2. /\ Running /\ log' = Append(log, e) /\ UNCHANGED <<rules, applied, start, outcome>>
      /\ row' = [row EXCEPT !.state = s] /\ <<row.state, s>> \in Transitions
  BY DEF SetState, Appended, Acting, Working, Allowed
<1>3. row'.state = s /\ row'.fields = row.fields /\ s \in States
  <2>1. row \in Row
    BY DEF TypeOK
  <2> QED BY <1>2, <2>1, StatesAssumption DEF Row
<1>4. PICK n, u : n = Len(log) /\ u = Updates
  OBVIOUS
<1>5. n \in Nat /\ u \in Nat /\ Len(log') = n + 1 /\ Updates' = u + 1
  <2>1. Updated(e)
    BY <1>1 DEF Updated
  <2> QED BY <1>2, <1>4, <2>1, UpdatesGrow, UpdatesNumber, LogGrown
<1> DEFINE newRow == [Case!Bump(CaseNow) EXCEPT !.state = s]
<1>6. CaseNow' = [newRow EXCEPT !.nextOp = @ + 1]
  <2> PICK r : r = row'
    OBVIOUS
  <2>1. CaseNow = CaseRow(row, 1 + u, n + 3)
    BY <1>4 DEF CaseNow
  <2>2. Case!Bump(CaseNow) = CaseRow(row, 1 + u + 1, n + 3)
    BY <2>1, RowBumped
  <2>3. newRow = [CaseRow(row, 1 + u + 1, n + 3) EXCEPT !.state = r.state]
    BY <1>3, <2>2
  <2> HIDE DEF newRow
  <2>4. newRow = CaseRow(r, 1 + u + 1, n + 3)
    BY <1>3, <2>3, RowMoved
  <2>5. [newRow EXCEPT !.nextOp = @ + 1] = CaseRow(r, 1 + u + 1, n + 3 + 1)
    BY <2>4, RowUpdated
  <2>6. CaseNow' = CaseRow(r, 1 + (u + 1), n + 1 + 3)
    BY <1>5 DEF CaseNow, CaseRow
  <2>7. n + 1 + 3 = n + 3 + 1 /\ 1 + (u + 1) = 1 + u + 1
    BY <1>5
  <2> QED BY <2>5, <2>6, <2>7
<1>7. NowEmitted' = NowEmitted \cup {Event(name) : name \in {"case.state.changed"}}
  <2>1. NowEmitted' = NowEmitted
    BY <1>1, <1>2, EventsEmitted
  <2> QED BY <2>1 DEF NowEmitted
<1> HIDE DEF newRow
<1>8. Case!RuleAction(Request, newRow, LoggedAs(e.type), e.from, e.to, {"case.state.changed"})
  BY <1>2, <1>6, <1>7, Recorded
<1>9. Case!RulesRun(Request)
  BY <1>2, RoomForIt
<1>10. WorkNow[Request].row = CaseNow /\ CaseNow.state = row.state
  BY <1>2, RequestNow DEF One, NowWritten, Written, CaseNow, CaseRow
<1> QED BY <1>1, <1>2, <1>3, <1>8, <1>9, <1>10 DEF Case!RuleSetState, Case!Allowed, newRow
\* services/rules.ts: whatever rules a transition sets off, and however they change while it
\* runs, what they do are steps that CaseCommands allows the rules of a request, no more of
\* them than it allows, and the request ends by committing or rolling back all of them.
THEOREM RulesRefineCommands == Spec => RulesActAsInCommands
<1>1. RuleInv /\ WorkBounded' /\ [Next]_vars =>
        [\/ Case!RuleSetState(Request) \/ Case!RuleUpdateValues(Request)
         \/ Case!RuleRecord(Request) \/ Case!Commit(Request) \/ Case!Fail(Request)]_Case!vars
  <2> SUFFICES ASSUME RuleInv, WorkBounded', [Next]_vars
               PROVE  \/ Case!RuleSetState(Request) \/ Case!RuleUpdateValues(Request)
                      \/ Case!RuleRecord(Request) \/ Case!Commit(Request) \/ Case!Fail(Request)
                      \/ UNCHANGED Case!vars
    OBVIOUS
  <2>1. TypeOK /\ CascadeInv /\ WorkInv
    BY DEF RuleInv
  <2>2. stack'[1].state = stack[1].state
    BY <2>1, FirstState DEF vars
  <2>3. CASE LoadRules \/ SkipRule \/ Return \/ Reconfigure \/ Terminated \/ UNCHANGED vars
    BY <2>2, <2>3, Unseen DEF LoadRules, SkipRule, Return, Reconfigure, Terminated, vars
  <2>4. CASE CascadeLimit \/ NotWritable \/ Fail
    BY <2>4, RolledBack
    DEF CascadeLimit, CutCascade, Loading, NotWritable, Acting, Working, Fail
  <2>5. CASE Commit
    BY <2>5, CommittedTogether DEF Commit, Finished
  <2>6. CASE UpdateValues
    BY <2>1, <2>2, <2>6, ValuesUpdated
  <2>7. CASE SetState
    BY <2>1, <2>2, <2>7, StateSet
  <2>8. CASE CreateOperation
    BY <2>1, <2>2, <2>8, RecordOnly DEF CreateOperation, Acting
  <2>9. CASE CatalogAction
    BY <2>1, <2>2, <2>9, RecordOnly DEF CatalogAction, Acting
  <2>10. CASE SkipIllegal
    BY <2>1, <2>2, <2>10, RecordOnly DEF SkipIllegal, Acting
  <2> QED BY <2>3, <2>4, <2>5, <2>6, <2>7, <2>8, <2>9, <2>10 DEF Next
<1> QED BY <1>1, RuleInvariance, WorkStaysBounded, PTL DEF Spec, RulesActAsInCommands
=============================================================================
