SPECIFICATION Spec
CONSTANTS
  Jobs = {j1, j2, j3}
  Processes = {worker}
  Fields = {"fee_paid", "coordinate"}
  States = {"received", "decided"}
  InitialState = "received"
  FormIds = {"update-site"}
  RuleIds = {"autoclose"}
  MaxVersion = 4
  Seed <- SeedConfig
  Edits <- AllEdits
  Artifacts <- NoArtifacts
  None = None
SYMMETRY Symmetry
INVARIANT EachEditBumps
