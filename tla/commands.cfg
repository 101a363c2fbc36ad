SPECIFICATION Spec
CONSTANTS
  c1 = c1
  p1 = p1
  y1 = y1
  v1 = v1
  v2 = v2
  Requests = {r1, r2, r3, r4}
  CaseKeys = {c1}
  PendingIds = {p1}
  Years = {y1}
  States = {"received", "in_preparation", "waiting_customer"}
  InitialState = "received"
  Transitions <- PermitTransitions
  Fields = {"fee_paid"}
  Values = {v1, v2}
  None = None
  Commands <- AllCommands
  MaxRuleActions = 1
SYMMETRY Symmetry
INVARIANT TypeOK OperationIdsGapless HistoryExplainsState AnswerMatchesTraces
INVARIANT DecidedOnce ProjectionConsistent CaseInv HistoryInv TrailInv PublicInv LedgerInv
PROPERTY ImplementsLedger
