SPECIFICATION ConsoleSpec
CONSTANTS
  Registries = {"permits", "grants"}
  First = "permits"
  Identities = {"worker", "customer"}
  Acting = "worker"
  Tabs = {"customer", "worker", "publishing", "management"}
  MaxClicks = 3
  None = None
INVARIANT MetaOfItsRegistry
