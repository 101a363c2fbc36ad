------------------------------ MODULE MCAccess ------------------------------
(* Instances of Access for TLC. *)
EXTENDS Access

CONSTANTS w1, k1, t1, q1, q2

\* "105", "0105.04" below it, and "1050", which only looks as if it were.
C105 == <<<<105, 3>>>>
C10504 == <<<<105, 4>>, <<4, 2>>>>
C1050 == <<<<1050, 4>>>>
SomeCategories == {C105, C10504, C1050}

TwoRoots == [g \in Registries |-> IF g = "permits" THEN {C105, C1050} ELSE {C105}]

SomeCases ==
  [c \in Cases |-> CASE c = "below"  -> [registry |-> "permits", category |-> C10504]
                     [] c = "beside" -> [registry |-> "permits", category |-> C1050]
                     [] OTHER        -> [registry |-> "permits", category |-> C105]]

\* A token of an integration that works on one branch of the permits.
OneScope ==
  [t \in Tokens |-> [registry |-> "permits", category |-> C105, publishedOnly |-> TRUE,
     allows |-> {<<"GET", "cases">>, <<"POST", "cases">>, <<"POST", "operations">>}]]

\* The ISO timestamp of a moment, and the text of a day of the present as an
\* administrator may write it, which sorts after every timestamp: "Jan 1 2026".
Iso(at) == [means |-> at, sorts |-> TextOf(at)]
DayInWords == [means |-> 0, sorts |-> TextOf(Horizon) + 1]

\* The defaults of the form, a grant for approval that is not opted in to, one that has
\* an end, one whose end is a day in words, and two that are not accepted: an end that
\* cannot be read and an end before the beginning.
Defaults == {"read", "write", "transition", "optedIn"}
SomeGrants ==
  {[rights |-> Defaults, from |-> None, until |-> None],
   [rights |-> {"read", "approve"}, from |-> Iso(1), until |-> None],
   [rights |-> {"write", "approve"}, from |-> None, until |-> Iso(0)],
   [rights |-> {"write", "transition"}, from |-> None, until |-> DayInWords],
   [rights |-> Defaults, from |-> None, until |-> [means |-> None, sorts |-> 0]],
   [rights |-> Defaults, from |-> Iso(1), until |-> Iso(0)]}

Ask(op, who, zone, case, audience) ==
  [op |-> op, registry |-> "permits", case |-> case, who |-> who, zone |-> zone, audience |-> audience]

Both == {"worker", "customer"}
AllOps == Effects \cup Lists \cup {"read"}

Alone(r) == [q \in Requests |-> IF q = q1 THEN r ELSE None]
Beside(r, s) == [q \in Requests |-> IF q = q1 THEN r ELSE s]

Anyone == {w1, k1, t1, None}
NewCase == {"create", "open"}
TakeIt == Ask("assign", w1, "combined", "below", Both)

\* Every request on its own, at a process that serves every zone; every command at the
\* others; a worker who takes a case from two windows, or watches it being taken; and a
\* client whose case is opened or published by a worker while it is judged.
Workloads ==
  {Alone(Ask(op, who, "combined", c, Both)) :
     op \in AllOps \ NewCase, who \in Anyone, c \in Opened}
  \cup {Alone(Ask(op, who, "combined", "new", audience)) :
     op \in NewCase, who \in Anyone, audience \in {Both, {"customer"}}}
  \cup {Alone(Ask(op, who, zone, IF op \in NewCase THEN "new" ELSE "below", Both)) :
     op \in Effects, who \in Anyone, zone \in Zones \ {"combined"}}
  \cup {Beside(TakeIt, Ask(op, w1, "worker", "below", Both)) :
     op \in {"assign", "unassigned"}}
  \cup {Beside(Ask("create", w1, "worker", "new", Both), Ask("mine", k1, "public", "below", Both)),
         Beside(Ask("publish", w1, "worker", "below", Both), Ask("read", t1, "integration", "below", Both))}
=============================================================================
