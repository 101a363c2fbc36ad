SPECIFICATION FairSpec
CONSTANTS
  c1 = c1
  p1 = p1
  y1 = y1
  v1 = v1
  v2 = v2
  Requests = {r1, r2, r3, r4}
  CaseKeys = {c1, c2}
  PendingIds = {p1}
  Years = {y1, y2}
  States = {"received", "in_preparation", "waiting_customer"}
  InitialState = "received"
  Transitions <- PermitTransitions
  Fields = {"fee_paid"}
  Values = {v1}
  None = None
  Commands <- IntakeCommands
  MaxRuleActions = 0
INVARIANT DiaryNumbersGapless
PROPERTY EveryRequestAnswered
