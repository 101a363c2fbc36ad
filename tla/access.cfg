SPECIFICATION AccessSpec
CONSTANTS
  w1 = w1
  k1 = k1
  t1 = t1
  q1 = q1
  q2 = q2
  Workers = {w1}
  Customers = {k1}
  Tokens = {t1}
  Registries = {"permits", "grants"}
  Requests = {q1, q2}
  Categories <- SomeCategories
  Roots <- TwoRoots
  Cases = {"below", "beside", "new"}
  CaseOf <- SomeCases
  Opened = {"below", "beside"}
  Scope <- OneScope
  GrantInputs <- SomeGrants
  Asked <- Workloads
  Horizon = 1
  MaxActs = 2
  None = None
INVARIANT OnlyEntitled NothingWithheld ZonesContain AssignmentsRecorded AccessInv
