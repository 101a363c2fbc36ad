SPECIFICATION ReadSpec
CONSTANTS
  c1 = c1
  p1 = p1
  y1 = y1
  v1 = v1
  v2 = v2
  Requests = {r1, r2, r3}
  CaseKeys = {c1}
  PendingIds = {p1}
  Years = {y1}
  States = {"received", "in_preparation", "waiting_customer"}
  InitialState = "received"
  Transitions <- PermitTransitions
  Fields = {"fee_paid"}
  Values = {v1}
  None = None
  Commands <- ReadCommands
  MaxRuleActions = 1
  Readers = {q1}
  Home = "permits"
  ExportOrder <- TwoRegistries
SYMMETRY Symmetry
INVARIANT HistoryCoversState OnlyPublishedShown ExportExplainsCases ExportLogTruthful ReadInv
