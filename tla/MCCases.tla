------------------------------ MODULE MCCases -------------------------------
(* Instances of CaseSafety for TLC. *)
EXTENDS CaseSafety, TLC

CONSTANTS c1, p1, y1, v1, v2

\* Part of the permit registry's life cycle, and a step back in it.
PermitTransitions ==
  {<<"received", "in_preparation">>, <<"in_preparation", "waiting_customer">>,
   <<"waiting_customer", "in_preparation">>}

Empty == [f \in {} |-> v1]
Set(v) == [f \in Fields |-> v]

CreateIt == [kind |-> "create", year |-> y1, set |-> Empty]
MoveTo(s) == [kind |-> "transition", case |-> c1, to |-> s]
Update(set) == [kind |-> "update", case |-> c1, set |-> set]
\* The type of a worker's note is the worker's choice, the platform's own names included.
NoteIt == [kind |-> "append", case |-> c1, type |-> "published"]

\* Workers edit one case at the same time.
EditCommands ==
  {CreateIt, NoteIt, Update(Set(v1)), MoveTo("in_preparation"), MoveTo("waiting_customer")}

StageIt   == [kind |-> "stage", case |-> c1, set |-> Set(v1)]
ApproveIt == [kind |-> "approve", pid |-> p1]
RejectIt  == [kind |-> "reject", pid |-> p1]

\* A customer's submission is decided twice and the case edited meanwhile.
ApprovalCommands ==
  {CreateIt, StageIt, ApproveIt, RejectIt, Update(Set(v2)), Update(Empty)}

\* A case is published, edited and withdrawn.
PublicationCommands ==
  {CreateIt, Update(Set(v1)), MoveTo("in_preparation"),
   [kind |-> "publish", case |-> c1, pick |-> Fields, ops |-> {1, 2}],
   [kind |-> "unpublish", case |-> c1]}

\* All of these beside each other.
AllCommands == EditCommands \cup ApprovalCommands \cup PublicationCommands

\* Cases are opened around the turn of a year, and a submission decided.
IntakeCommands ==
  {[kind |-> "create", year |-> y, set |-> Empty] : y \in Years}
    \cup {StageIt, ApproveIt}

Symmetry == Permutations(Requests)
=============================================================================
