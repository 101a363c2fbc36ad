------------------------------ MODULE MCConfig ------------------------------
(* Instances of ConfigSafety for TLC. *)
EXTENDS ConfigSafety, TLC

Nothing == [fields |-> {}, states |-> {}, edges |-> {}, forms |-> {}, rules |-> {}]

\* Part of the permit registry.
SeedConfig ==
  [version |-> 1, fields |-> {"fee_paid"}, states |-> {"received"}, edges |-> {},
   forms |-> {}, rules |-> {}]

AddField == [Nothing EXCEPT !.fields = {"coordinate"}]
AddState == [Nothing EXCEPT !.states = {"decided"}]
AddTransition == [Nothing EXCEPT !.edges = {<<"received", "decided">>}]
AddForm == [Nothing EXCEPT !.forms = {[id |-> "update-site", subset |-> {"coordinate"}]}]
AddRule == [Nothing EXCEPT !.rules = {[id |-> "autoclose", sets |-> {"fee_paid"},
                                       names |-> {"decided"}]}]

AllEdits == {AddField, AddState, AddTransition, AddForm, AddRule}

\* The same registry, developed elsewhere: a field, a state and a rule more.
Developed(v) ==
  [version |-> v, fields |-> {"fee_paid", "coordinate"}, states |-> {"received", "decided"},
   edges |-> {<<"received", "decided">>}, forms |-> AddForm.forms, rules |-> AddRule.rules]

NoArtifacts == {}
OneArtifact == {Developed(2)}

Symmetry == Permutations(Jobs)
=============================================================================
