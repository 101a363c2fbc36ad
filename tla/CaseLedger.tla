----------------------------- MODULE CaseLedger -----------------------------
(***************************************************************************)
(* What the case platform promises its users: a ledger of cases on which   *)
(* every command takes effect at once, at a single moment, on the ledger   *)
(* as it is at that moment.  There are no requests here, no transactions   *)
(* and no versions read earlier; CaseCommands implements this.             *)
(***************************************************************************)
EXTENDS Integers

CONSTANTS CaseKeys, PendingIds, Years, States, InitialState, Transitions, Fields, Values, None

VARIABLES
  issued, \* the last diary number of each year
  ledger, \* the entry of each case
  staged  \* the customer submissions that wait, or waited, for a worker

vars == <<issued, ledger, staged>>

Open(c) == ledger[c] # None

\* t can be reached from s by configured transitions.
Reaches(s, t) ==
  \A S \in SUBSET States :
    (s \in S /\ \A e \in Transitions : e[1] \in S => e[2] \in S) => t \in S

Others(c) == \A d \in CaseKeys \ {c} : ledger'[d] = ledger[d]

Amended(set, fields) == [f \in Fields |-> IF f \in DOMAIN set THEN set[f] ELSE fields[f]]

\* A field change that names no field is an entry in the history only.
Amendment(c, set) ==
  ledger' = [ledger EXCEPT ![c].fields = Amended(set, @),
                           ![c].version = IF DOMAIN set = {} THEN @ ELSE @ + 1,
                           ![c].ops = @ + 1]

Init ==
  /\ issued = [y \in Years |-> 0]
  /\ ledger = [c \in CaseKeys |-> None]
  /\ staged = [p \in PendingIds |-> None]

Create(c) ==
  /\ ~Open(c) /\ ledger'[c] # None /\ Others(c)
  /\ LET e == ledger'[c] IN
     /\ e.number = issued[e.year] + 1
     /\ issued' = [issued EXCEPT ![e.year] = @ + 1]
     /\ e.state = InitialState /\ e.version = 1 /\ e.ops = 1 /\ e.shown = None
  /\ UNCHANGED staged

Note(c) ==
  /\ Open(c)
  /\ ledger' = [ledger EXCEPT ![c].ops = @ + 1]
  /\ UNCHANGED <<issued, staged>>

\* A transition the configuration allows from the state the case is in now, and
\* whatever allowed transitions and field changes the rules add to it.
Move(c) ==
  /\ Open(c) /\ Others(c)
  /\ \E s \in States : /\ <<ledger[c].state, s>> \in Transitions
                       /\ Reaches(s, ledger'[c].state)
  /\ ledger'[c].version > ledger[c].version
  /\ ledger'[c].ops > ledger[c].ops
  /\ ledger'[c].shown = ledger[c].shown
  /\ <<ledger'[c].year, ledger'[c].number>> = <<ledger[c].year, ledger[c].number>>
  /\ UNCHANGED <<issued, staged>>

Amend(c) ==
  /\ Open(c)
  /\ \E F \in SUBSET Fields : \E set \in [F -> Values] : Amendment(c, set)
  /\ UNCHANGED <<issued, staged>>

Stage(p) ==
  /\ staged[p] = None /\ staged'[p] # None
  /\ Open(staged'[p].case) /\ staged'[p].status = "pending"
  /\ staged' = [staged EXCEPT ![p] = staged'[p]]
  /\ ledger' = [ledger EXCEPT ![staged'[p].case].ops = @ + 1]
  /\ UNCHANGED issued

\* A waiting submission is applied once, exactly as it was staged.
Approve(p) ==
  /\ staged[p] # None /\ staged[p].status = "pending"
  /\ staged' = [staged EXCEPT ![p].status = "approved"]
  /\ Amendment(staged[p].case, staged[p].set)
  /\ UNCHANGED issued

Reject(p) ==
  /\ staged[p] # None /\ staged[p].status = "pending"
  /\ staged' = [staged EXCEPT ![p].status = "rejected"]
  /\ ledger' = [ledger EXCEPT ![staged[p].case].ops = @ + 1]
  /\ UNCHANGED issued

\* What is shown is the state and the chosen fields of one and the same moment.
Show(c) ==
  /\ Open(c)
  /\ \E F \in SUBSET Fields :
       ledger' = [ledger EXCEPT
         ![c].shown = [state |-> ledger[c].state, fields |-> [f \in F |-> ledger[c].fields[f]]],
         ![c].version = @ + 1,
         ![c].ops = @ + 1]
  /\ UNCHANGED <<issued, staged>>

Hide(c) ==
  /\ Open(c)
  /\ ledger' = [ledger EXCEPT ![c].shown = None, ![c].version = @ + 1, ![c].ops = @ + 1]
  /\ UNCHANGED <<issued, staged>>

Next ==
  \/ \E c \in CaseKeys : Create(c) \/ Note(c) \/ Move(c) \/ Amend(c) \/ Show(c) \/ Hide(c)
  \/ \E p \in PendingIds : Stage(p) \/ Approve(p) \/ Reject(p)

Spec == Init /\ [][Next]_vars
=============================================================================
