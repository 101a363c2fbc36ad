------------------------------ MODULE MCReads -------------------------------
(* Instances of CaseReads for TLC. *)
EXTENDS MCCases, CaseReads

\* A case is worked on, published, changed and withdrawn while it is read.
ReadCommands ==
  {CreateIt, NoteIt, MoveTo("in_preparation"),
   [kind |-> "publish", case |-> c1, pick |-> {}, ops |-> {1}],
   [kind |-> "unpublish", case |-> c1]}

TwoRegistries == <<"permits", "grants">>
=============================================================================
