SPECIFICATION Spec
CONSTANTS
  Jobs = {j1, j2, j3, j4}
  Processes = {worker, public}
  Fields = {"fee_paid", "coordinate"}
  States = {"received", "decided"}
  InitialState = "received"
  FormIds = {"update-site"}
  RuleIds = {"autoclose"}
  MaxVersion = 4
  Seed <- SeedConfig
  Edits <- AllEdits
  Artifacts <- OneArtifact
  None = None
SYMMETRY Symmetry
INVARIANT ConfigurationGrounded ApplyTakesEffect EffectInv
