SPECIFICATION Spec
CONSTANTS
  RuleIds = {"autoclose", "reopen", "waive", "restart", "notify", "minute", "reclose"}
  Conditions <- AllConditions
  Holds <- EvalCondition
  RuleTables <- OrderedTables
  MaxReconfigurations = 1
  MAX_CASCADE = 2
  States = {"prepared", "decided", "closed"}
  Transitions <- ClosingTransitions
  Fields = {"fee_paid"}
  Values = {"true", "1", "0"}
  None = None
INVARIANT TypeOK EveryActionAudited StatesFollowTransitions CascadeComplete WorkBounded RuleInv
PROPERTY RulesActAsInCommands
