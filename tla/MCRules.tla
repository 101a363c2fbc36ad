------------------------------ MODULE MCRules -------------------------------
(* An instance of RuleSafety for TLC: rules of a permit registry's end.    *)
EXTENDS RuleSafety, FiniteSets, TLC

\* evalCondition over a tree of conditions.
RECURSIVE EvalCondition(_, _)
EvalCondition(c, r) ==
  CASE c.op = "always"    -> TRUE
    [] c.op = "all"       -> \A x \in c.of : EvalCondition(x, r)
    [] c.op = "any"       -> \E x \in c.of : EvalCondition(x, r)
    [] c.op = "equals"    -> Normalize(r.fields[c.field]) = Normalize(c.value)
    [] c.op = "notEquals" -> Normalize(r.fields[c.field]) # Normalize(c.value)

Always == [op |-> "always"]
Paid   == [op |-> "equals", field |-> "fee_paid", value |-> "true"]
Unpaid == [op |-> "notEquals", field |-> "fee_paid", value |-> "true"]
PaidOrUnset == [op |-> "any", of |-> {Paid, [op |-> "all", of |-> {Unpaid}]}]

AllConditions == {Always, Paid, Unpaid, PaidOrUnset}

ClosingTransitions == {<<"prepared", "decided">>, <<"decided", "closed">>, <<"closed", "decided">>,
                       <<"closed", "closed">>}

R(id, on, when, type, to, set) ==
  [id |-> id, on |-> on, when |-> when, type |-> type, to |-> to, set |-> set]

SetPaid == [f \in {"fee_paid"} |-> "true"]

AutoClose == R("autoclose", "decided", Paid, "set_state", "closed", NoFields)
Reopen    == R("reopen", "closed", Always, "set_state", "decided", NoFields)
Reclose   == R("reclose", "closed", Always, "set_state", "closed", NoFields)
Waive     == R("waive", None, Unpaid, "update_values", None, SetPaid)
Restart   == R("restart", None, PaidOrUnset, "set_state", "prepared", NoFields)
Notify    == R("notify", "closed", Always, "catalog", None, NoFields)
Minute    == R("minute", None, Always, "create_operation", None, NoFields)

AllRules == {AutoClose, Reopen, Waive, Restart, Notify, Minute, Reclose}

\* Every order of up to two rules, and some of three.
Tables ==
  {<<>>} \cup {<<a>> : a \in AllRules}
         \cup {<<a, b>> : a, b \in AllRules}
         \cup {<<a, AutoClose, b>> : a, b \in AllRules \ {AutoClose, Reclose}}
OrderedTables == {t \in Tables : Cardinality({t[i].id : i \in DOMAIN t}) = Len(t)}
=============================================================================
